---- MODULE Spec2Model ----
(***************************************************************************)
(* Appointment lifecycle coordinator of MindfulConnect.                    *)
(*                                                                         *)
(* Two revisions of the storage service live in the repository and both    *)
(* are modelled:                                                           *)
(*   - src/services/storageService.ts: every operation first talks to the  *)
(*     Supabase datastore and falls back to an in-memory store when the    *)
(*     datastore call throws (operators and actions without suffix for     *)
(*     the datastore path, suffix Local for the fallback path);            *)
(*   - src/unnamed/part_007: the datastore-only revision of the same       *)
(*     service, which holds the transfer finalize step (suffix V7).        *)
(* The datastore is deployed from src/database_schema.sql (which installs  *)
(* the availability sync trigger) or from src/unnamed/part_008 (which      *)
(* does not); syncTrigger records which one.                               *)
(***************************************************************************)
EXTENDS Integers, Sequences, FiniteSets, TLC

VARIABLES
    appointments,        \* datastore table public.appointments (row i has id i)
    availability,        \* datastore table public.availability: (counselor, date) -> slots
    notifications,       \* rows appended to public.notifications by the latest call
    localAppointments,   \* fallback in-memory store of storageService.ts
    localAvailability,   \* fallback in-memory ledger of storageService.ts
    localNotifications,  \* entries pushed to localNotifications by the latest call
    supabaseUp,          \* whether datastore calls succeed
    sinkUp,              \* whether inserts into public.notifications succeed
    syncTrigger,         \* whether trigger_sync_availability is installed
    service,             \* the revision of the storage service the clients run
    now,                 \* the wall clock of the counselor's browser, <<hour, minute>> of Today
    inflight,            \* per browser session: the saveAppointment call awaiting its insert
    interrupted,         \* the call some of whose datastore writes have failed, if any
    views,               \* per mounted view: the appointments it shows
    gateRequest,         \* Layout: id of the appointment the gate modal shows, 0 for null
    ignoredIds,          \* Layout: ids of the gate requests the counselor closed
    lastCall             \* the latest service call and what it returned

vars == <<appointments, availability, notifications, localAppointments,
          localAvailability, localNotifications, supabaseUp, sinkUp, syncTrigger,
          service, now, inflight, interrupted, gateRequest, ignoredIds, views, lastCall>>

\* what no completed service call changes: the deployment, the clock, the calls in flight
env == <<supabaseUp, sinkUp, syncTrigger, service, now, inflight, interrupted,
        gateRequest, ignoredIds, views>>

(***************************************************************************)
(* Bounds and small input sets                                             *)
(***************************************************************************)
MaxAppts == 2
MaxProtocolAppts == 1
\* entries of localAppointments, the seeded mock entry included
MaxLocalAppts == 2

Counselors == {"c1", "c2"}
Students == {"s1", "s2"}
Dates == {"2025-12-08", "2025-12-09"}
\* a time "HH:mm" is kept as the pair its split(':') yields
Times == {<<9, 0>>, <<9, 30>>}

NULL == "null"
NoTime == <<>>

\* the day the mock appointment and the clock readings fall on
Today == "2025-12-08"
\* readings of new Date(): 30 and 15 minutes before 09:00, and 25 minutes before 10:00
ClockTimes == {<<8, 30>>, <<8, 45>>, <<9, 35>>}
\* the browser sessions that can have a saveAppointment call in flight
Sessions == {"tab1", "tab2"}
Idle == <<>>
NoRow == <<>>
LocalIdBase == 100

PENDING == "PENDING"
CONFIRMED == "CONFIRMED"
CANCELLED == "CANCELLED"
COMPLETED == "COMPLETED"
VERIFYING == "VERIFYING"
ACCEPTED == "ACCEPTED"
DENIED == "DENIED"
AppointmentStatus == {PENDING, CONFIRMED, CANCELLED, COMPLETED, VERIFYING, ACCEPTED, DENIED}

MIN_INTERVAL_MINUTES == 80

CounselorName(c) == IF c = "c1" THEN "Ms. Christina Sharah K. Manangguit"
                    ELSE IF c = "c2" THEN "Ms. Mary Jane M. Lalamunan"
                    ELSE "Ms. Elizabeth T. Cape"

(***************************************************************************)
(* Conflict checker                                                        *)
(***************************************************************************)
timeToMinutes(time) == time[1] * 60 + time[2]

Abs(x) == IF x < 0 THEN -x ELSE x

\* the comparison with <= in place of <
hasIntervalConflictInclusive(newTime, existingTimes) ==
    \E i \in DOMAIN existingTimes :
        Abs(timeToMinutes(newTime) - timeToMinutes(existingTimes[i])) <= MIN_INTERVAL_MINUTES

hasIntervalConflict(newTime, existingTimes) ==
    \E i \in DOMAIN existingTimes :
        Abs(timeToMinutes(newTime) - timeToMinutes(existingTimes[i])) < MIN_INTERVAL_MINUTES

(***************************************************************************)
(* Rows                                                                    *)
(***************************************************************************)
\* the row the datastore stores for an inserted appointment: the transfer
\* acceptance columns take their DEFAULT false, the other optional columns NULL
NewRow(id, s, c, cname, d, t, st) ==
    [id |-> id, studentId |-> s, counselorId |-> c, counselorName |-> cname,
     date |-> d, time |-> t, status |-> st, isAtGate |-> FALSE,
     transferRequestToId |-> NULL, transferRequestToName |-> NULL,
     transferCounselorAccepted |-> "false", transferStudentAccepted |-> "false",
     rescheduleProposedDate |-> NULL, rescheduleProposedTime |-> NoTime]

\* the object saveAppointment pushes to localAppointments: optional fields absent
NewLocalAppt(id, s, c, cname, d, t, st) ==
    [NewRow(id, s, c, cname, d, t, st) EXCEPT
        !.transferCounselorAccepted = NULL, !.transferStudentAccepted = NULL]

IsBookedStatus(st) == st \in {PENDING, CONFIRMED}

Call(op, id, args, ret) == [op |-> op, id |-> id, args |-> args, ret |-> ret]

Notif(userId, message) == [userId |-> userId, message |-> message]

\* ids the calls are addressed to: datastore rows and locally saved appointments
DbIds == 1..MaxAppts
LocalIds == (LocalIdBase + 1)..(LocalIdBase + MaxLocalAppts - 1)
AllIds == DbIds \cup LocalIds

\* index of the entry of localAppointments with the given id, 0 when find() misses
LocalIndex(id) == IF \E i \in DOMAIN localAppointments : localAppointments[i].id = id
                  THEN CHOOSE i \in DOMAIN localAppointments : localAppointments[i].id = id
                  ELSE 0

(***************************************************************************)
(* Slot ledger                                                             *)
(***************************************************************************)
TimeSlot(time, isBooked) == [time |-> time, isBooked |-> isBooked]

\* the slots stored for (counselor, date): maybeSingle() yields no row when none is stored
Row(av, c, d) == IF <<c, d>> \in DOMAIN av THEN av[<<c, d>>] ELSE NoRow

SetSlots(av, c, d, t, isBooked) ==
    IF Row(av, c, d) = NoRow THEN av
    ELSE [av EXCEPT ![<<c, d>>] =
            [i \in DOMAIN @ |-> IF @[i].time = t THEN [@[i] EXCEPT !.isBooked = isBooked] ELSE @[i]]]

\* datastore path of updateSlotStatus: rewrite every slot of the row whose time matches
updateSlotStatus(av, c, d, t, isBooked) == SetSlots(av, c, d, t, isBooked)

\* fallback path of updateSlotStatus: flip the first slot of the day whose time matches
updateSlotStatusLocal(av, c, d, t, isBooked) ==
    IF Row(av, c, d) = NoRow THEN av
    ELSE LET day == av[<<c, d>>]
             hits == {i \in DOMAIN day : day[i].time = t}
         IN IF hits = {} THEN av
            ELSE LET first == CHOOSE i \in hits : \A j \in hits : i <= j
                 IN [av EXCEPT ![<<c, d>>][first].isBooked = isBooked]

update_availability_slot(av, c, d, t, isBooked) == SetSlots(av, c, d, t, isBooked)

\* AFTER INSERT trigger on public.appointments
SyncInsert(av, new) ==
    IF syncTrigger /\ IsBookedStatus(new.status)
    THEN update_availability_slot(av, new.counselorId, new.date, new.time, TRUE)
    ELSE av

\* the SQL comparison x <> y: not true when either side is null
Distinct(x, y, null) == x # null /\ y # null /\ x # y

\* AFTER UPDATE trigger on public.appointments
SyncUpdate(av, old, new) ==
    IF ~syncTrigger THEN av
    ELSE LET av1 == IF new.status \in {CANCELLED, COMPLETED} /\ IsBookedStatus(old.status)
                    THEN update_availability_slot(av, old.counselorId, old.date, old.time, FALSE)
                    ELSE av
             av2 == IF IsBookedStatus(new.status) /\ old.status \in {CANCELLED, COMPLETED}
                    THEN update_availability_slot(av1, new.counselorId, new.date, new.time, TRUE)
                    ELSE av1
             av3 == IF Distinct(old.date, new.date, NULL) \/ Distinct(old.time, new.time, NoTime)
                    THEN LET av31 == update_availability_slot(av2, old.counselorId, old.date, old.time, FALSE)
                         IN IF IsBookedStatus(new.status)
                            THEN update_availability_slot(av31, new.counselorId, new.date, new.time, TRUE)
                            ELSE av31
                    ELSE av2
         IN av3

\* jsonb_agg(... ORDER BY time): the slots in ascending order of their time
RECURSIVE SortByTime(_)
SortByTime(slots) ==
    IF slots = <<>> THEN <<>>
    ELSE LET least == CHOOSE i \in DOMAIN slots :
                         \A j \in DOMAIN slots :
                             \/ timeToMinutes(slots[i].time) < timeToMinutes(slots[j].time)
                             \/ timeToMinutes(slots[i].time) = timeToMinutes(slots[j].time) /\ i <= j
             rest == [k \in 1..(Len(slots) - 1) |-> IF k < least THEN slots[k] ELSE slots[k + 1]]
         IN <<slots[least]>> \o SortByTime(rest)

\* a variant that counts every appointment, whatever its status
is_booked_by_any(rows, c, d, t) ==
    \E i \in DOMAIN rows :
        rows[i].counselorId = c /\ rows[i].date = d /\ rows[i].time = t

\* is_actually_booked of the re-sync script
is_actually_booked(rows, c, d, t) ==
    \E i \in DOMAIN rows :
        /\ rows[i].counselorId = c /\ rows[i].date = d /\ rows[i].time = t
        /\ rows[i].status \in {PENDING, CONFIRMED}

\* DATA RE-SYNC SCRIPT: every availability row that has slots is rebuilt from
\* its own slot times and the appointments; a row without slots is not joined
Resync(av, rows) ==
    [k \in DOMAIN av |->
        IF av[k] = <<>> THEN av[k]
        ELSE SortByTime([i \in DOMAIN av[k] |->
                            TimeSlot(av[k][i].time,
                                     is_actually_booked(rows, k[1], k[2], av[k][i].time))])]

\* the times a provider publishes for a date, in ascending order
AllTimes == <<<<9, 0>>, <<9, 30>>>>

finalSlots(timeSlots) == [i \in DOMAIN timeSlots |-> TimeSlot(timeSlots[i], FALSE)]

\* merge of saveAvailability: a slot already in the row keeps its stored value
MergeSlots(existing, timeSlots) ==
    [i \in DOMAIN timeSlots |->
        IF \E j \in DOMAIN existing : existing[j].time = timeSlots[i]
        THEN existing[CHOOSE j \in DOMAIN existing :
                        /\ existing[j].time = timeSlots[i]
                        /\ \A k \in DOMAIN existing : existing[k].time = timeSlots[i] => j <= k]
        ELSE TimeSlot(timeSlots[i], FALSE)]

IsBooked(av, c, d, t) ==
    \E i \in DOMAIN Row(av, c, d) : Row(av, c, d)[i].time = t /\ Row(av, c, d)[i].isBooked

IsPublished(av, c, d, t) ==
    \E i \in DOMAIN Row(av, c, d) : Row(av, c, d)[i].time = t

(***************************************************************************)
(* Initial state: no appointment yet; the providers have published their   *)
(* availability (saveAvailability) in whichever store is in use.           *)
(***************************************************************************)
NoLedger == [k \in Counselors \X Dates |-> NoRow]

\* every provider published both times on both dates
FullLedger == [k \in Counselors \X Dates |-> finalSlots(AllTimes)]

\* c2 published only 09:00 on the first date and nothing on the second
PartialLedger ==
    [k \in Counselors \X Dates |->
        IF k[1] = "c1" THEN finalSlots(AllTimes)
        ELSE IF k[2] = "2025-12-08" THEN finalSlots(<<<<9, 0>>>>) ELSE NoRow]

PublishedLedgers == {FullLedger, PartialLedger}

STORAGE == "storageService.ts"
V7 == "part_007"

\* the entry App.tsx seeds into the in-memory store on start
initMockData ==
    <<NewLocalAppt(LocalIdBase, "student-1", "c1", CounselorName("c1"),
                   "2025-12-08", <<10, 0>>, VERIFYING)>>

\* the mounted views and the user each is mounted for
Views == {"CounselorDashboard", "StudentDashboard", "VerificationTab"}
Subscribers == {"CounselorDashboard", "StudentDashboard"}
Pollers == {"VerificationTab"}
Viewer(v) == IF v = "StudentDashboard" THEN "s1" ELSE "c1"

\* getAppointments: the datastore rows, or what the revision returns when the select fails
getAppointments ==
    IF supabaseUp THEN appointments
    ELSE IF service = STORAGE THEN localAppointments
    ELSE <<>>

\* the filter each view applies to the fetched list
Mine(v, a) ==
    IF v = "StudentDashboard" THEN a.studentId = Viewer(v)
    ELSE IF v = "VerificationTab" THEN a.counselorId = Viewer(v) /\ a.date = Today
    ELSE a.counselorId = Viewer(v) \/ a.transferRequestToId = Viewer(v)

Shown(v, all) == SelectSeq(all, LAMBDA a : Mine(v, a))

Init ==
    /\ service \in {STORAGE, V7}
    /\ supabaseUp \in BOOLEAN
    /\ sinkUp = TRUE
    /\ syncTrigger \in BOOLEAN
    /\ service = V7 => supabaseUp
    /\ appointments = <<>>
    /\ localAppointments = IF service = STORAGE THEN initMockData ELSE <<>>
    /\ IF supabaseUp
       THEN availability \in PublishedLedgers /\ localAvailability = NoLedger
       ELSE availability = NoLedger /\ localAvailability \in PublishedLedgers
    /\ notifications = <<>>
    /\ localNotifications = <<>>
    /\ now = <<8, 30>>
    /\ inflight = [p \in Sessions |-> Idle]
    /\ interrupted = NoRow
    /\ views = [v \in Views |-> Shown(v, getAppointments)]
    /\ gateRequest = 0
    /\ ignoredIds = {}
    /\ lastCall = Call("init", 0, <<>>, "void")

\* updateSlotStatus in two steps, as a browser session runs it: the select of the
\* row's slots, then the update that writes the whole mapped array back
slotRead(p, c, d, t, isBooked) ==
    /\ supabaseUp
    /\ inflight[p] = Idle
    /\ Row(availability, c, d) # NoRow
    /\ inflight' = [inflight EXCEPT ![p] =
          [c |-> c, d |-> d, t |-> t, isBooked |-> isBooked,
           slots |-> Row(availability, c, d), done |-> FALSE]]
    /\ UNCHANGED <<appointments, availability, notifications, localAppointments,
                   localAvailability, localNotifications, supabaseUp, sinkUp, syncTrigger,
                   service, now, interrupted, gateRequest, ignoredIds, views, lastCall>>

slotWrite(p) ==
    /\ supabaseUp
    /\ inflight[p] # Idle /\ ~inflight[p].done
    /\ LET call == inflight[p]
           updatedSlots == [i \in DOMAIN call.slots |->
                               IF call.slots[i].time = call.t
                               THEN [call.slots[i] EXCEPT !.isBooked = call.isBooked]
                               ELSE call.slots[i]]
       IN /\ availability' = [availability EXCEPT ![<<call.c, call.d>>] = updatedSlots]
          /\ lastCall' = Call("updateSlotStatus", 0, <<call.c, call.d, call.t, call.isBooked>>, "void")
    /\ inflight' = [inflight EXCEPT ![p].done = TRUE]
    /\ UNCHANGED <<appointments, notifications, localAppointments, localAvailability,
                   localNotifications, supabaseUp, sinkUp, syncTrigger, service, now,
                   interrupted, gateRequest, ignoredIds, views>>

\* each session makes one updateSlotStatus call on the row of c1 and Today
NextSlots ==
    \/ \E p \in Sessions, t \in Times, isBooked \in BOOLEAN : slotRead(p, "c1", Today, t, isBooked)
    \/ \E p \in Sessions : slotWrite(p)

SpecSlots == Init /\ [][NextSlots]_vars

\* the interval check on its own: a target time and a list of up to MaxExisting
\* existing times, among them times 79, 80 and 81 minutes from 09:00
MaxExisting == 2

InitInterval ==
    /\ service = STORAGE
    /\ supabaseUp = TRUE
    /\ sinkUp = TRUE
    /\ syncTrigger = TRUE
    /\ appointments = <<>>
    /\ localAppointments = initMockData
    /\ availability = FullLedger
    /\ localAvailability = NoLedger
    /\ notifications = <<>>
    /\ localNotifications = <<>>
    /\ now = <<8, 30>>
    /\ inflight = [p \in Sessions |-> Idle]
    /\ interrupted = NoRow
    /\ views = [v \in Views |-> Shown(v, getAppointments)]
    /\ gateRequest = 0
    /\ ignoredIds = {}
    /\ LET times == {<<7, 40>>, <<7, 41>>, <<9, 0>>, <<9, 30>>, <<10, 19>>, <<10, 20>>, <<10, 21>>}
       IN \E newTime \in times, n \in 0..MaxExisting :
             \E existingTimes \in [1..n -> times] :
                lastCall = Call("hasIntervalConflict", 0, <<newTime, existingTimes>>, "pending")

\* the check is evaluated on the inputs drawn
checkInterval ==
    /\ lastCall.op = "hasIntervalConflict" /\ lastCall.ret = "pending"
    /\ lastCall' = [lastCall EXCEPT !.ret =
                      IF hasIntervalConflict(lastCall.args[1], lastCall.args[2])
                      THEN "true" ELSE "false"]
    /\ UNCHANGED <<appointments, availability, notifications, localAppointments,
                   localAvailability, localNotifications, env>>

SpecInterval == InitInterval /\ [][checkInterval]_vars

\* createNotification of part_007: the insert's result is ignored, a failed row is lost
DeliveredAnyway(ns) == ns

Delivered(ns) == IF sinkUp THEN ns ELSE <<>>

\* createNotification of storageService.ts: insert, or push locally when the insert fails
Notify(ns) ==
    IF supabaseUp /\ sinkUp
    THEN notifications' = ns /\ localNotifications' = <<>>
    ELSE notifications' = <<>> /\ localNotifications' = ns

(***************************************************************************)
(* storageService.ts: saveAppointment                                      *)
(***************************************************************************)
StudentConflicts(table, s, d, t) ==
    {i \in DOMAIN table : /\ table[i].studentId = s
                          /\ table[i].date = d
                          /\ table[i].time = t
                          /\ IsBookedStatus(table[i].status)}

saveAppointment(s, c, d, t) ==
    /\ service = STORAGE /\ supabaseUp
    /\ IF StudentConflicts(appointments, s, d, t) # {}
       THEN /\ lastCall' = Call("saveAppointment", 0, <<s, c, d, t>>, NULL)
            /\ Notify(<<>>)
            /\ UNCHANGED <<appointments, availability>>
       ELSE /\ LET id == Len(appointments) + 1
                   row == NewRow(id, s, c, CounselorName(c), d, t, PENDING)
               IN /\ appointments' = Append(appointments, row)
                  /\ availability' = updateSlotStatus(SyncInsert(availability, row), c, d, t, TRUE)
                  /\ Notify(<<Notif(c, "New Appointment Request")>>)
                  /\ lastCall' = Call("saveAppointment", id, <<s, c, d, t>>, "appointment")
    /\ UNCHANGED <<localAppointments, localAvailability, env>>

saveAppointmentLocal(s, c, d, t) ==
    /\ service = STORAGE /\ ~supabaseUp
    /\ IF StudentConflicts(localAppointments, s, d, t) # {}
       THEN /\ lastCall' = Call("saveAppointment", 0, <<s, c, d, t>>, NULL)
            /\ localNotifications' = <<>>
            /\ UNCHANGED <<localAppointments, localAvailability>>
       ELSE /\ LET id == LocalIdBase + Len(localAppointments)
                   appt == NewLocalAppt(id, s, c, CounselorName(c), d, t, PENDING)
               IN /\ localAppointments' = Append(localAppointments, appt)
                  /\ localAvailability' = updateSlotStatusLocal(localAvailability, c, d, t, TRUE)
                  /\ localNotifications' = <<Notif(c, "New Appointment Request")>>
                  /\ lastCall' = Call("saveAppointment", id, <<s, c, d, t>>, "appointment")
    /\ notifications' = <<>>
    /\ UNCHANGED <<appointments, availability, env>>

\* The datastore path of saveAppointment awaits the conflict query and then the
\* insert: calls of other sessions can run between the two.  saveQuery is the
\* call up to the answer of the query, saveInsert the rest of it.
saveQuery(p, s, c, d, t) ==
    /\ service = STORAGE /\ supabaseUp
    /\ inflight[p] = Idle
    /\ IF StudentConflicts(appointments, s, d, t) # {}
       THEN /\ lastCall' = Call("saveAppointment", 0, <<s, c, d, t>>, NULL)
            /\ notifications' = <<>>
            /\ localNotifications' = <<>>
            /\ UNCHANGED inflight
       ELSE /\ inflight' = [inflight EXCEPT ![p] = <<s, c, d, t>>]
            /\ UNCHANGED <<notifications, localNotifications, lastCall>>
    /\ UNCHANGED <<appointments, availability, localAppointments, localAvailability,
                   supabaseUp, sinkUp, syncTrigger, service, now, interrupted, gateRequest, ignoredIds, views>>

saveInsert(p) ==
    /\ service = STORAGE /\ supabaseUp
    /\ inflight[p] # Idle
    /\ LET s == inflight[p][1]
           c == inflight[p][2]
           d == inflight[p][3]
           t == inflight[p][4]
           id == Len(appointments) + 1
           row == NewRow(id, s, c, CounselorName(c), d, t, PENDING)
       IN /\ appointments' = Append(appointments, row)
          /\ availability' = updateSlotStatus(SyncInsert(availability, row), c, d, t, TRUE)
          /\ Notify(<<Notif(c, "New Appointment Request")>>)
          /\ lastCall' = Call("saveAppointment", id, <<s, c, d, t>>, "appointment")
    /\ inflight' = [inflight EXCEPT ![p] = Idle]
    /\ UNCHANGED <<localAppointments, localAvailability, supabaseUp, sinkUp, syncTrigger, service, now, interrupted, gateRequest, ignoredIds, views>>

\* the datastore becomes unreachable, or reachable again, between two calls; the
\* calls of storageService.ts then take the other path
Outage ==
    /\ service = STORAGE
    /\ supabaseUp' = ~supabaseUp
    /\ UNCHANGED <<appointments, availability, notifications, localAppointments,
                   localAvailability, localNotifications, sinkUp, syncTrigger, service,
                   now, inflight, interrupted, gateRequest, ignoredIds, views, lastCall>>

\* inserts into public.notifications start, or stop, being rejected between two calls
SinkOutage ==
    /\ sinkUp' = ~sinkUp
    /\ UNCHANGED <<appointments, availability, notifications, localAppointments,
                   localAvailability, localNotifications, supabaseUp, syncTrigger, service,
                   now, inflight, interrupted, gateRequest, ignoredIds, views, lastCall>>

\* a change event of the appointments table reaches a subscribed view, which re-fetches
onAppointmentsChange(v) ==
    /\ v \in Subscribers
    /\ supabaseUp
    /\ views' = [views EXCEPT ![v] = Shown(v, getAppointments)]
    /\ UNCHANGED <<appointments, availability, notifications, localAppointments,
                   localAvailability, localNotifications, supabaseUp, sinkUp, syncTrigger,
                   service, now, inflight, interrupted, gateRequest, ignoredIds, lastCall>>

\* the interval of a polling view elapses and it re-fetches
poll(v) ==
    /\ v \in Pollers
    /\ views' = [views EXCEPT ![v] = Shown(v, getAppointments)]
    /\ UNCHANGED <<appointments, availability, notifications, localAppointments,
                   localAvailability, localNotifications, supabaseUp, sinkUp, syncTrigger,
                   service, now, inflight, interrupted, gateRequest, ignoredIds, lastCall>>

\* the re-sync script of database_schema.sql is run on the datastore
resync ==
    /\ supabaseUp
    /\ availability' = Resync(availability, appointments)
    /\ notifications' = <<>> /\ localNotifications' = <<>>
    /\ lastCall' = Call("resync", 0, <<>>, "void")
    /\ UNCHANGED <<appointments, localAppointments, localAvailability, env>>

\* part_007: insert without any conflict check
saveAppointmentV7(s, c, d, t) ==
    /\ service = V7 /\ supabaseUp
    /\ LET id == Len(appointments) + 1
           row == NewRow(id, s, c, CounselorName(c), d, t, PENDING)
       IN /\ appointments' = Append(appointments, row)
          /\ availability' = updateSlotStatus(SyncInsert(availability, row), c, d, t, TRUE)
          /\ notifications' = Delivered(<<Notif(c, "New Request")>>)
          /\ lastCall' = Call("saveAppointment", id, <<s, c, d, t>>, "appointment")
    /\ UNCHANGED <<localAppointments, localAvailability, localNotifications, env>>

(***************************************************************************)
(* updateAppointmentStatus                                                 *)
(***************************************************************************)
StatusMessage(status) ==
    IF status = CONFIRMED THEN "Your appointment has been CONFIRMED"
    ELSE IF status = CANCELLED THEN "Your appointment was CANCELLED"
    ELSE IF status = COMPLETED THEN "Your session has been marked COMPLETED"
    ELSE ""

StatusMessageV7(status) ==
    IF status = ACCEPTED THEN "Gate Entry: Counselor has APPROVED your entry"
    ELSE IF status = DENIED THEN "Gate Entry: Counselor has DENIED your entry request"
    ELSE StatusMessage(status)

StatusNotifsTwice(studentId, msg) == <<Notif(studentId, msg), Notif(studentId, msg)>>

StatusNotifs(studentId, msg) == IF msg # "" THEN <<Notif(studentId, msg)>> ELSE <<>>

\* datastore path: the row is found, the slot is freed on CANCELLED, the status written
updateAppointmentStatus(id, status) ==
    /\ service = STORAGE /\ supabaseUp
    /\ id \in DOMAIN appointments
    /\ LET old == appointments[id]
           new == [old EXCEPT !.status = status]
           av1 == IF status = CANCELLED
                  THEN updateSlotStatus(availability, old.counselorId, old.date, old.time, FALSE)
                  ELSE availability
       IN /\ appointments' = [appointments EXCEPT ![id] = new]
          /\ availability' = SyncUpdate(av1, old, new)
          /\ Notify(StatusNotifs(old.studentId, StatusMessage(status)))
    /\ lastCall' = Call("updateAppointmentStatus", id, status, "void")
    /\ UNCHANGED <<localAppointments, localAvailability, env>>

\* fallback path: taken when the select throws (datastore down or no such row)
updateAppointmentStatusLocal(id, status) ==
    /\ service = STORAGE
    /\ ~supabaseUp \/ id \notin DOMAIN appointments
    /\ LET i == LocalIndex(id)
       IN IF i = 0
          THEN /\ UNCHANGED <<localAppointments, localAvailability>>
               /\ notifications' = <<>> /\ localNotifications' = <<>>
          ELSE LET appt == localAppointments[i]
               IN /\ localAppointments' = [localAppointments EXCEPT ![i].status = status]
                  /\ localAvailability' =
                        IF status = CANCELLED
                        THEN updateSlotStatusLocal(localAvailability, appt.counselorId, appt.date, appt.time, FALSE)
                        ELSE localAvailability
                  /\ Notify(StatusNotifs(appt.studentId, StatusMessage(status)))
    /\ lastCall' = Call("updateAppointmentStatus", id, status, "void")
    /\ UNCHANGED <<appointments, availability, env>>

\* part_007: no fallback; ACCEPTED and DENIED also release the gate flag
updateAppointmentStatusV7(id, status) ==
    /\ service = V7 /\ supabaseUp
    /\ IF id \in DOMAIN appointments
       THEN LET old == appointments[id]
                new == [old EXCEPT !.status = status,
                                   !.isAtGate = IF status \in {ACCEPTED, DENIED} THEN FALSE ELSE @]
                av1 == IF status = CANCELLED
                       THEN updateSlotStatus(availability, old.counselorId, old.date, old.time, FALSE)
                       ELSE availability
            IN /\ appointments' = [appointments EXCEPT ![id] = new]
               /\ availability' = SyncUpdate(av1, old, new)
               /\ notifications' = Delivered(StatusNotifs(old.studentId, StatusMessageV7(status)))
       ELSE /\ UNCHANGED <<appointments, availability>>
            /\ notifications' = <<>>
    /\ lastCall' = Call("updateAppointmentStatus", id, status, "void")
    /\ UNCHANGED <<localAppointments, localAvailability, localNotifications, env>>

(***************************************************************************)
(* Gate verification                                                       *)
(***************************************************************************)
\* part_007: a bare update of is_at_gate, whatever the row's status or flag
requestGateVerificationV7(id) ==
    /\ service = V7 /\ supabaseUp
    /\ IF id \in DOMAIN appointments
       THEN LET old == appointments[id]
                new == [old EXCEPT !.isAtGate = TRUE]
            IN /\ appointments' = [appointments EXCEPT ![id] = new]
               /\ availability' = SyncUpdate(availability, old, new)
       ELSE UNCHANGED <<appointments, availability>>
    /\ notifications' = <<>>
    /\ lastCall' = Call("requestGateVerification", id, <<>>, "true")
    /\ UNCHANGED <<localAppointments, localAvailability, localNotifications, env>>

\* VerificationModal.checkTime: whole minutes from the clock reading to the appointment
diffMins(appt) ==
    (IF appt.date = Today THEN 0 ELSE 1440) + timeToMinutes(appt.time) - timeToMinutes(now)

isTooEarly(appt) == diffMins(appt) > 15

\* time passes between two calls
Tick ==
    /\ \E t \in ClockTimes : timeToMinutes(t) > timeToMinutes(now) /\ now' = t
    /\ UNCHANGED <<appointments, availability, notifications, localAppointments,
                   localAvailability, localNotifications, supabaseUp, sinkUp, syncTrigger,
                   service, inflight, interrupted, gateRequest, ignoredIds, views, lastCall>>

(***************************************************************************)
(* Reschedule protocol                                                     *)
(***************************************************************************)
\* a variant that moves the appointment at once
ProposedMoving(a, newDate, newTime) == [a EXCEPT !.date = newDate, !.time = newTime]

\* the update of rescheduleAppointment: the two proposal columns
Proposed(a, newDate, newTime) ==
    [a EXCEPT !.rescheduleProposedDate = newDate, !.rescheduleProposedTime = newTime]

rescheduleAppointment(id, newDate, newTime) ==
    /\ service = STORAGE /\ supabaseUp
    /\ id \in DOMAIN appointments
    /\ LET old == appointments[id]
           new == Proposed(old, newDate, newTime)
       IN /\ appointments' = [appointments EXCEPT ![id] = new]
          /\ availability' = SyncUpdate(availability, old, new)
          /\ Notify(<<Notif(old.studentId, "Counselor has proposed to reschedule")>>)
    /\ lastCall' = Call("rescheduleAppointment", id, <<newDate, newTime>>, "true")
    /\ UNCHANGED <<localAppointments, localAvailability, env>>

rescheduleAppointmentLocal(id, newDate, newTime) ==
    /\ service = STORAGE
    /\ ~supabaseUp \/ id \notin DOMAIN appointments
    /\ LET i == LocalIndex(id)
       IN IF i = 0
          THEN /\ UNCHANGED localAppointments
               /\ notifications' = <<>> /\ localNotifications' = <<>>
               /\ lastCall' = Call("rescheduleAppointment", id, <<newDate, newTime>>, "false")
          ELSE /\ localAppointments' = [localAppointments EXCEPT
                                            ![i] = Proposed(@, newDate, newTime)]
               /\ Notify(<<Notif(localAppointments[i].studentId, "Counselor has proposed to reschedule")>>)
               /\ lastCall' = Call("rescheduleAppointment", id, <<newDate, newTime>>, "true")
    /\ UNCHANGED <<appointments, availability, localAvailability, env>>

\* part_007: a bare update, no lookup and no notification
rescheduleAppointmentV7(id, newDate, newTime) ==
    /\ service = V7 /\ supabaseUp
    /\ IF id \in DOMAIN appointments
       THEN LET old == appointments[id]
                new == Proposed(old, newDate, newTime)
            IN /\ appointments' = [appointments EXCEPT ![id] = new]
               /\ availability' = SyncUpdate(availability, old, new)
       ELSE UNCHANGED <<appointments, availability>>
    /\ notifications' = <<>>
    /\ lastCall' = Call("rescheduleAppointment", id, <<newDate, newTime>>, "true")
    /\ UNCHANGED <<localAppointments, localAvailability, localNotifications, env>>

\* a variant that also cancels the appointment
ClearProposalCancelling(a) ==
    [a EXCEPT !.rescheduleProposedDate = NULL, !.rescheduleProposedTime = NoTime,
              !.status = CANCELLED]

ClearProposal(a) == [a EXCEPT !.rescheduleProposedDate = NULL, !.rescheduleProposedTime = NoTime]

\* datastore path; the same update is what part_007 issues
cancelRescheduleProposal(id) ==
    /\ supabaseUp
    /\ IF id \in DOMAIN appointments
       THEN LET old == appointments[id]
                new == ClearProposal(old)
            IN /\ appointments' = [appointments EXCEPT ![id] = new]
               /\ availability' = SyncUpdate(availability, old, new)
       ELSE UNCHANGED <<appointments, availability>>
    /\ notifications' = <<>> /\ localNotifications' = <<>>
    /\ lastCall' = Call("cancelRescheduleProposal", id, <<>>, "true")
    /\ UNCHANGED <<localAppointments, localAvailability, env>>

\* the update call itself threw: the catch block works on the in-memory store
cancelRescheduleProposalLocal(id) ==
    /\ service = STORAGE /\ ~supabaseUp
    /\ LET i == LocalIndex(id)
       IN IF i = 0
          THEN /\ UNCHANGED localAppointments
               /\ lastCall' = Call("cancelRescheduleProposal", id, <<>>, "false")
          ELSE /\ localAppointments' = [localAppointments EXCEPT ![i] = ClearProposal(@)]
               /\ lastCall' = Call("cancelRescheduleProposal", id, <<>>, "true")
    /\ notifications' = <<>> /\ localNotifications' = <<>>
    /\ UNCHANGED <<appointments, availability, localAvailability, env>>

\* the row as studentRespondToReschedule rewrites it on accept
AcceptedReschedule(a) ==
    [a EXCEPT !.date = a.rescheduleProposedDate,
              !.time = a.rescheduleProposedTime,
              !.rescheduleProposedDate = NULL,
              !.rescheduleProposedTime = NoTime,
              !.status = CONFIRMED]

DeclinedReschedule(a) ==
    [a EXCEPT !.status = CANCELLED,
              !.rescheduleProposedDate = NULL,
              !.rescheduleProposedTime = NoTime]

\* part_007 clears only reschedule_proposed_date on decline
DeclinedRescheduleV7(a) ==
    [a EXCEPT !.status = CANCELLED, !.rescheduleProposedDate = NULL]

SwapSlotsKeepingOld(av, a) ==
    updateSlotStatus(av, a.counselorId, a.rescheduleProposedDate, a.rescheduleProposedTime, TRUE)

\* the two updateSlotStatus calls of an accepted reschedule
SwapSlots(av, a) ==
    updateSlotStatus(updateSlotStatus(av, a.counselorId, a.date, a.time, FALSE),
                     a.counselorId, a.rescheduleProposedDate, a.rescheduleProposedTime, TRUE)

studentRespondToReschedule(id, accept) ==
    /\ service = STORAGE /\ supabaseUp
    /\ id \in DOMAIN appointments
    /\ LET old == appointments[id]
           new == IF accept THEN AcceptedReschedule(old) ELSE DeclinedReschedule(old)
           av1 == IF accept THEN SwapSlots(availability, old)
                  ELSE updateSlotStatus(availability, old.counselorId, old.date, old.time, FALSE)
       IN /\ appointments' = [appointments EXCEPT ![id] = new]
          /\ availability' = SyncUpdate(av1, old, new)
          /\ Notify(<<Notif(old.counselorId,
                                      IF accept THEN "Student approved the reschedule"
                                      ELSE "Student declined. Cancelled.")>>)
    /\ lastCall' = Call("studentRespondToReschedule", id, accept, "true")
    /\ UNCHANGED <<localAppointments, localAvailability, env>>

studentRespondToRescheduleLocal(id, accept) ==
    /\ service = STORAGE
    /\ ~supabaseUp \/ id \notin DOMAIN appointments
    /\ LET i == LocalIndex(id)
       IN IF i # 0 /\ localAppointments[i].rescheduleProposedDate # NULL
                   /\ localAppointments[i].rescheduleProposedTime # NoTime
          THEN LET appt == localAppointments[i]
               IN /\ localAppointments' = [localAppointments EXCEPT ![i] =
                        IF accept THEN AcceptedReschedule(appt) ELSE DeclinedReschedule(appt)]
                  /\ localAvailability' =
                        IF accept
                        THEN updateSlotStatusLocal(
                                updateSlotStatusLocal(localAvailability, appt.counselorId, appt.date, appt.time, FALSE),
                                appt.counselorId, appt.rescheduleProposedDate, appt.rescheduleProposedTime, TRUE)
                        ELSE updateSlotStatusLocal(localAvailability, appt.counselorId, appt.date, appt.time, FALSE)
                  /\ Notify(<<Notif(appt.counselorId,
                                    IF accept THEN "Student approved." ELSE "Student declined.")>>)
                  /\ lastCall' = Call("studentRespondToReschedule", id, accept, "true")
          ELSE /\ UNCHANGED <<localAppointments, localAvailability>>
               /\ notifications' = <<>> /\ localNotifications' = <<>>
               /\ lastCall' = Call("studentRespondToReschedule", id, accept, "false")
    /\ UNCHANGED <<appointments, availability, env>>

\* part_007: the decline branch frees no slot
studentRespondToRescheduleV7(id, accept) ==
    /\ service = V7 /\ supabaseUp
    /\ IF id \in DOMAIN appointments
       THEN LET old == appointments[id]
                new == IF accept THEN AcceptedReschedule(old) ELSE DeclinedRescheduleV7(old)
                av1 == IF accept THEN SwapSlots(availability, old) ELSE availability
            IN /\ appointments' = [appointments EXCEPT ![id] = new]
               /\ availability' = SyncUpdate(av1, old, new)
               /\ lastCall' = Call("studentRespondToReschedule", id, accept, "true")
       ELSE /\ UNCHANGED <<appointments, availability>>
            /\ lastCall' = Call("studentRespondToReschedule", id, accept, "false")
    /\ notifications' = <<>>
    /\ UNCHANGED <<localAppointments, localAvailability, localNotifications, env>>

(***************************************************************************)
(* Transfer protocol                                                       *)
(***************************************************************************)
RequestedTransfer(a, to, toName) ==
    [a EXCEPT !.transferRequestToId = to,
              !.transferRequestToName = toName,
              !.transferCounselorAccepted = "false",
              !.transferStudentAccepted = "false"]

\* neither revision runs the interval check before writing the request
initiateTransfer(id, toCounselorId) ==
    /\ service = STORAGE /\ supabaseUp
    /\ id \in DOMAIN appointments
    /\ LET old == appointments[id]
           new == RequestedTransfer(old, toCounselorId, CounselorName(toCounselorId))
       IN /\ appointments' = [appointments EXCEPT ![id] = new]
          /\ availability' = SyncUpdate(availability, old, new)
          /\ Notify(<<Notif(toCounselorId, "Incoming transfer request"),
                                Notif(old.studentId, "Transfer request to")>>)
    /\ lastCall' = Call("initiateTransfer", id, toCounselorId, "true")
    /\ UNCHANGED <<localAppointments, localAvailability, env>>

initiateTransferLocal(id, toCounselorId) ==
    /\ service = STORAGE
    /\ ~supabaseUp \/ id \notin DOMAIN appointments
    /\ LET i == LocalIndex(id)
       IN IF i = 0
          THEN /\ UNCHANGED localAppointments
               /\ notifications' = <<>> /\ localNotifications' = <<>>
               /\ lastCall' = Call("initiateTransfer", id, toCounselorId, "false")
          ELSE /\ localAppointments' = [localAppointments EXCEPT ![i] =
                        RequestedTransfer(@, toCounselorId, CounselorName(toCounselorId))]
               /\ Notify(<<Notif(toCounselorId, "Incoming transfer request"),
                           Notif(localAppointments[i].studentId, "Transfer request to")>>)
               /\ lastCall' = Call("initiateTransfer", id, toCounselorId, "true")
    /\ UNCHANGED <<appointments, availability, localAvailability, env>>

initiateTransferV7(id, toCounselorId) ==
    /\ service = V7 /\ supabaseUp
    /\ IF id \in DOMAIN appointments
       THEN LET old == appointments[id]
                new == RequestedTransfer(old, toCounselorId, CounselorName(toCounselorId))
            IN /\ appointments' = [appointments EXCEPT ![id] = new]
               /\ availability' = SyncUpdate(availability, old, new)
       ELSE UNCHANGED <<appointments, availability>>
    /\ notifications' = <<>>
    /\ lastCall' = Call("initiateTransfer", id, toCounselorId, "true")
    /\ UNCHANGED <<localAppointments, localAvailability, localNotifications, env>>

\* what a decline, and cancelTransfer of storageService.ts, write
ClearTarget(a) == [a EXCEPT !.transferRequestToId = NULL, !.transferRequestToName = NULL]

\* what cancelTransfer of part_007, and finalize, write
ClearTransfer(a) ==
    [a EXCEPT !.transferRequestToId = NULL, !.transferRequestToName = NULL,
              !.transferCounselorAccepted = NULL, !.transferStudentAccepted = NULL]

cancelTransfer(id) ==
    /\ service = STORAGE /\ supabaseUp
    /\ IF id \in DOMAIN appointments
       THEN LET old == appointments[id]
                new == ClearTarget(old)
            IN /\ appointments' = [appointments EXCEPT ![id] = new]
               /\ availability' = SyncUpdate(availability, old, new)
       ELSE UNCHANGED <<appointments, availability>>
    /\ notifications' = <<>> /\ localNotifications' = <<>>
    /\ lastCall' = Call("cancelTransfer", id, <<>>, "true")
    /\ UNCHANGED <<localAppointments, localAvailability, env>>

cancelTransferLocal(id) ==
    /\ service = STORAGE /\ ~supabaseUp
    /\ LET i == LocalIndex(id)
       IN IF i = 0
          THEN /\ UNCHANGED localAppointments
               /\ lastCall' = Call("cancelTransfer", id, <<>>, "false")
          ELSE /\ localAppointments' = [localAppointments EXCEPT ![i] = ClearTarget(@)]
               /\ lastCall' = Call("cancelTransfer", id, <<>>, "true")
    /\ notifications' = <<>> /\ localNotifications' = <<>>
    /\ UNCHANGED <<appointments, availability, localAvailability, env>>

cancelTransferV7(id) ==
    /\ service = V7 /\ supabaseUp
    /\ IF id \in DOMAIN appointments
       THEN LET old == appointments[id]
                new == ClearTransfer(old)
            IN /\ appointments' = [appointments EXCEPT ![id] = new]
               /\ availability' = SyncUpdate(availability, old, new)
       ELSE UNCHANGED <<appointments, availability>>
    /\ notifications' = <<>>
    /\ lastCall' = Call("cancelTransfer", id, <<>>, "true")
    /\ UNCHANGED <<localAppointments, localAvailability, localNotifications, env>>

\* storageService.ts, datastore path: one column write, nothing else
respondToTransfer(id, accept, receivingCounselorId) ==
    /\ service = STORAGE /\ supabaseUp
    /\ IF id \in DOMAIN appointments
       THEN LET old == appointments[id]
                new == [old EXCEPT !.transferCounselorAccepted = IF accept THEN "true" ELSE NULL]
            IN /\ appointments' = [appointments EXCEPT ![id] = new]
               /\ availability' = SyncUpdate(availability, old, new)
       ELSE UNCHANGED <<appointments, availability>>
    /\ notifications' = <<>> /\ localNotifications' = <<>>
    /\ lastCall' = Call("respondToTransfer", id, <<accept, receivingCounselorId>>, "true")
    /\ UNCHANGED <<localAppointments, localAvailability, env>>

respondToTransferLocal(id, accept, receivingCounselorId) ==
    /\ service = STORAGE /\ ~supabaseUp
    /\ LET i == LocalIndex(id)
       IN IF i = 0
          THEN /\ UNCHANGED localAppointments
               /\ lastCall' = Call("respondToTransfer", id, <<accept, receivingCounselorId>>, "false")
          ELSE /\ localAppointments' = [localAppointments EXCEPT ![i] =
                        IF accept THEN [@ EXCEPT !.transferCounselorAccepted = "true"]
                        ELSE ClearTarget(@)]
               /\ lastCall' = Call("respondToTransfer", id, <<accept, receivingCounselorId>>, "true")
    /\ notifications' = <<>> /\ localNotifications' = <<>>
    /\ UNCHANGED <<appointments, availability, localAvailability, env>>

FinalizedKeepingStatus(a, receivingCounselorId, receivingCounselorName) ==
    [ClearTransfer(a) EXCEPT !.counselorId = receivingCounselorId,
                             !.counselorName = receivingCounselorName]

\* the row finalize writes
Finalized(a, receivingCounselorId, receivingCounselorName) ==
    [ClearTransfer(a) EXCEPT !.counselorId = receivingCounselorId,
                             !.counselorName = receivingCounselorName,
                             !.status = CONFIRMED]

\* the two updateSlotStatus calls of finalize
MoveSlot(av, a, receivingCounselorId) ==
    updateSlotStatus(updateSlotStatus(av, a.counselorId, a.date, a.time, FALSE),
                     receivingCounselorId, a.date, a.time, TRUE)

\* finalize runs when the student flag read at the start of the call is true
FinalizeNow(a, accept) == accept /\ a.transferStudentAccepted = "true"

respondToTransferV7(id, accept, receivingCounselorId) ==
    /\ service = V7 /\ supabaseUp
    /\ IF id \in DOMAIN appointments
       THEN LET old == appointments[id]
                acc == [old EXCEPT !.transferCounselorAccepted = "true"]
                new == IF ~accept THEN ClearTarget(old)
                       ELSE IF FinalizeNow(old, accept)
                            THEN Finalized(acc, receivingCounselorId, CounselorName(receivingCounselorId))
                            ELSE acc
                av1 == SyncUpdate(availability, old, IF accept THEN acc ELSE new)
                av2 == IF FinalizeNow(old, accept)
                       THEN SyncUpdate(MoveSlot(av1, old, receivingCounselorId), acc, new)
                       ELSE av1
            IN /\ appointments' = [appointments EXCEPT ![id] = new]
               /\ availability' = av2
               /\ lastCall' = Call("respondToTransfer", id, <<accept, receivingCounselorId>>, "true")
       ELSE /\ UNCHANGED <<appointments, availability>>
            /\ lastCall' = Call("respondToTransfer", id, <<accept, receivingCounselorId>>, "false")
    /\ notifications' = <<>>
    /\ UNCHANGED <<localAppointments, localAvailability, localNotifications, env>>

studentRespondToTransfer(id, accept) ==
    /\ service = STORAGE /\ supabaseUp
    /\ IF id \in DOMAIN appointments
       THEN LET old == appointments[id]
                new == [old EXCEPT !.transferStudentAccepted = IF accept THEN "true" ELSE NULL]
            IN /\ appointments' = [appointments EXCEPT ![id] = new]
               /\ availability' = SyncUpdate(availability, old, new)
       ELSE UNCHANGED <<appointments, availability>>
    /\ notifications' = <<>> /\ localNotifications' = <<>>
    /\ lastCall' = Call("studentRespondToTransfer", id, accept, "true")
    /\ UNCHANGED <<localAppointments, localAvailability, env>>

studentRespondToTransferLocal(id, accept) ==
    /\ service = STORAGE /\ ~supabaseUp
    /\ LET i == LocalIndex(id)
       IN IF i = 0
          THEN /\ UNCHANGED localAppointments
               /\ lastCall' = Call("studentRespondToTransfer", id, accept, "false")
          ELSE /\ localAppointments' = [localAppointments EXCEPT ![i] =
                        IF accept THEN [@ EXCEPT !.transferStudentAccepted = "true"]
                        ELSE ClearTarget(@)]
               /\ lastCall' = Call("studentRespondToTransfer", id, accept, "true")
    /\ notifications' = <<>> /\ localNotifications' = <<>>
    /\ UNCHANGED <<appointments, availability, localAvailability, env>>

studentRespondToTransferV7(id, accept) ==
    /\ service = V7 /\ supabaseUp
    /\ IF id \in DOMAIN appointments
       THEN LET old == appointments[id]
                new == IF accept THEN [old EXCEPT !.transferStudentAccepted = "true"]
                       ELSE ClearTarget(old)
            IN /\ appointments' = [appointments EXCEPT ![id] = new]
               /\ availability' = SyncUpdate(availability, old, new)
       ELSE UNCHANGED <<appointments, availability>>
    /\ notifications' = <<>>
    /\ lastCall' = Call("studentRespondToTransfer", id, accept, "true")
    /\ UNCHANGED <<localAppointments, localAvailability, localNotifications, env>>

(***************************************************************************)
(* Specifications                                                          *)
(***************************************************************************)
StatusInputs == {CONFIRMED, CANCELLED, COMPLETED}

BookBy(S) ==
    \/ \E s \in S, c \in Counselors, d \in Dates, t \in Times : saveAppointment(s, c, d, t)
    \/ \E s \in S, c \in Counselors, d \in Dates, t \in Times : saveAppointmentLocal(s, c, d, t)
    \/ \E s \in S, c \in Counselors, d \in Dates, t \in Times : saveAppointmentV7(s, c, d, t)

Book == BookBy(Students)

\* the protocols are followed on the appointment of one student
ProtocolStudents == {"s1"}

ChangeStatus ==
    \/ \E id \in AllIds, st \in StatusInputs : updateAppointmentStatus(id, st)
    \/ \E id \in AllIds, st \in StatusInputs : updateAppointmentStatusLocal(id, st)
    \/ \E id \in AllIds, st \in StatusInputs : updateAppointmentStatusV7(id, st)

Reschedule ==
    \/ \E id \in AllIds, d \in Dates, t \in Times : rescheduleAppointment(id, d, t)
    \/ \E id \in AllIds, d \in Dates, t \in Times : rescheduleAppointmentLocal(id, d, t)
    \/ \E id \in AllIds, d \in Dates, t \in Times : rescheduleAppointmentV7(id, d, t)
    \/ \E id \in AllIds : cancelRescheduleProposal(id)
    \/ \E id \in AllIds : cancelRescheduleProposalLocal(id)
    \/ \E id \in AllIds, accept \in BOOLEAN : studentRespondToReschedule(id, accept)
    \/ \E id \in AllIds, accept \in BOOLEAN : studentRespondToRescheduleLocal(id, accept)
    \/ \E id \in AllIds, accept \in BOOLEAN : studentRespondToRescheduleV7(id, accept)

Transfer ==
    \/ \E id \in AllIds, to \in Counselors : initiateTransfer(id, to)
    \/ \E id \in AllIds, to \in Counselors : initiateTransferLocal(id, to)
    \/ \E id \in AllIds, to \in Counselors : initiateTransferV7(id, to)
    \/ \E id \in AllIds : cancelTransfer(id)
    \/ \E id \in AllIds : cancelTransferLocal(id)
    \/ \E id \in AllIds : cancelTransferV7(id)
    \/ \E id \in AllIds, accept \in BOOLEAN, c \in Counselors : respondToTransfer(id, accept, c)
    \/ \E id \in AllIds, accept \in BOOLEAN, c \in Counselors : respondToTransferLocal(id, accept, c)
    \/ \E id \in AllIds, accept \in BOOLEAN, c \in Counselors : respondToTransferV7(id, accept, c)
    \/ \E id \in AllIds, accept \in BOOLEAN : studentRespondToTransfer(id, accept)
    \/ \E id \in AllIds, accept \in BOOLEAN : studentRespondToTransferLocal(id, accept)
    \/ \E id \in AllIds, accept \in BOOLEAN : studentRespondToTransferV7(id, accept)

Confirm ==
    \/ \E id \in AllIds : updateAppointmentStatus(id, CONFIRMED)
    \/ \E id \in AllIds : updateAppointmentStatusLocal(id, CONFIRMED)
    \/ \E id \in AllIds : updateAppointmentStatusV7(id, CONFIRMED)

InitiateTransfer ==
    \/ \E id \in AllIds, to \in Counselors : initiateTransfer(id, to)
    \/ \E id \in AllIds, to \in Counselors : initiateTransferLocal(id, to)
    \/ \E id \in AllIds, to \in Counselors : initiateTransferV7(id, to)

\* the runs explored insert at most n datastore rows and MaxLocalAppts local ones
AtMost(n) == Len(appointments') <= n /\ Len(localAppointments') <= MaxLocalAppts

\* booking and status changes, two appointments
Next ==
    \/ Book /\ AtMost(MaxAppts)
    \/ ChangeStatus /\ AtMost(MaxAppts)

Spec == Init /\ [][Next]_vars

\* the reschedule protocol on one appointment
NextReschedule ==
    \/ BookBy(ProtocolStudents) /\ AtMost(MaxProtocolAppts)
    \/ ChangeStatus /\ AtMost(MaxProtocolAppts)
    \/ Reschedule /\ AtMost(MaxProtocolAppts)

SpecReschedule == Init /\ [][NextReschedule]_vars

\* the transfer protocol on one appointment
NextTransfer ==
    \/ BookBy(ProtocolStudents) /\ AtMost(MaxProtocolAppts)
    \/ ChangeStatus /\ AtMost(MaxProtocolAppts)
    \/ Transfer /\ AtMost(MaxProtocolAppts)

SpecTransfer == Init /\ [][NextTransfer]_vars

\* transfer requests against the schedule of the other providers
NextInitiate ==
    \/ Book /\ AtMost(MaxAppts)
    \/ Confirm /\ AtMost(MaxAppts)
    \/ InitiateTransfer /\ AtMost(MaxAppts)

SpecInitiate == Init /\ [][NextInitiate]_vars

\* the ids the gate calls are addressed to: the mock appointment is one of them
GateIds == AllIds \cup {LocalIdBase}

\* the verification modal sends CONFIRMED or CANCELLED, the gate page of part_004
\* ACCEPTED or DENIED
GateStatusInputs == StatusInputs \cup {ACCEPTED, DENIED}

GateRequest == \E id \in GateIds : requestGateVerificationV7(id)

GateDecide ==
    \/ \E id \in GateIds, st \in StatusInputs : updateAppointmentStatus(id, st)
    \/ \E id \in GateIds, st \in StatusInputs : updateAppointmentStatusLocal(id, st)
    \/ \E id \in GateIds, st \in GateStatusInputs : updateAppointmentStatusV7(id, st)

\* gate verification of one appointment and of the mock appointment, as time passes
NextGate ==
    \/ BookBy(ProtocolStudents) /\ AtMost(MaxProtocolAppts)
    \/ GateRequest /\ AtMost(MaxProtocolAppts)
    \/ GateDecide /\ AtMost(MaxProtocolAppts)
    \/ Tick

SpecGate == Init /\ [][NextGate]_vars

ProposeReschedule ==
    \/ \E id \in AllIds, d \in Dates, t \in Times : rescheduleAppointment(id, d, t)
    \/ \E id \in AllIds, d \in Dates, t \in Times : rescheduleAppointmentLocal(id, d, t)
    \/ \E id \in AllIds, d \in Dates, t \in Times : rescheduleAppointmentV7(id, d, t)

\* a transfer request and a reschedule proposal on the same appointment
NextSubStates ==
    \/ BookBy(ProtocolStudents) /\ AtMost(MaxProtocolAppts)
    \/ ProposeReschedule /\ AtMost(MaxProtocolAppts)
    \/ InitiateTransfer /\ AtMost(MaxProtocolAppts)

SpecSubStates == Init /\ [][NextSubStates]_vars

\* bookings through storageService.ts while the datastore comes and goes
NextOutage ==
    \/ \E s \in ProtocolStudents, c \in Counselors, d \in Dates, t \in Times :
           saveAppointment(s, c, d, t) /\ AtMost(MaxAppts)
    \/ \E s \in ProtocolStudents, c \in Counselors, d \in Dates, t \in Times :
           saveAppointmentLocal(s, c, d, t) /\ AtMost(MaxAppts)
    \/ Outage

SpecOutage == Init /\ [][NextOutage]_vars

\* bookings of two browser sessions through storageService.ts; the fallback path
\* has no await between its check and its push and stays one step
NextRace ==
    \/ \E p \in Sessions, s \in ProtocolStudents, c \in Counselors, d \in Dates, t \in Times :
           saveQuery(p, s, c, d, t)
    \/ \E p \in Sessions : saveInsert(p) /\ AtMost(MaxAppts)
    \/ \E s \in ProtocolStudents, c \in Counselors, d \in Dates, t \in Times :
           saveAppointmentLocal(s, c, d, t) /\ AtMost(MaxAppts)

SpecRace == Init /\ [][NextRace]_vars

\* status changes, transfer requests and reschedule proposals on one appointment
NextTerminal ==
    \/ BookBy(ProtocolStudents) /\ AtMost(MaxProtocolAppts)
    \/ ChangeStatus /\ AtMost(MaxProtocolAppts)
    \/ ProposeReschedule /\ AtMost(MaxProtocolAppts)
    \/ InitiateTransfer /\ AtMost(MaxProtocolAppts)

SpecTerminal == Init /\ [][NextTerminal]_vars

(***************************************************************************)
(* Datastore writes that fail inside a call: every write of a reschedule   *)
(* resolution and of a transfer finalize is awaited without a look at its  *)
(* result, so the writes after a failed one still run                      *)
(***************************************************************************)
RescheduleWrites == {"free", "book", "row"}
FinalizeWrites == {"flag", "free", "book", "row"}

\* studentRespondToReschedule with only the writes in done applied: <<rows, ledger>>
ResolveWith(rows, av, id, accept, done) ==
    LET appt == rows[id]
        frees == accept \/ service = STORAGE
        av1 == IF "free" \in done /\ frees
               THEN updateSlotStatus(av, appt.counselorId, appt.date, appt.time, FALSE)
               ELSE av
        av2 == IF "book" \in done /\ accept
               THEN updateSlotStatus(av1, appt.counselorId, appt.rescheduleProposedDate,
                                     appt.rescheduleProposedTime, TRUE)
               ELSE av1
        new == IF accept THEN AcceptedReschedule(appt)
               ELSE IF service = STORAGE THEN DeclinedReschedule(appt)
               ELSE DeclinedRescheduleV7(appt)
    IN IF "row" \in done
       THEN <<[rows EXCEPT ![id] = new], SyncUpdate(av2, appt, new)>>
       ELSE <<rows, av2>>

\* finalize of part_007's respondToTransfer with only the writes in done applied
FinalizeWith(rows, av, id, receivingCounselorId, done) ==
    LET appt == rows[id]
        acc == IF "flag" \in done THEN [appt EXCEPT !.transferCounselorAccepted = "true"] ELSE appt
        av1 == SyncUpdate(av, appt, acc)
        av2 == IF "free" \in done
               THEN updateSlotStatus(av1, appt.counselorId, appt.date, appt.time, FALSE)
               ELSE av1
        av3 == IF "book" \in done
               THEN updateSlotStatus(av2, receivingCounselorId, appt.date, appt.time, TRUE)
               ELSE av2
        new == Finalized(acc, receivingCounselorId, CounselorName(receivingCounselorId))
    IN IF "row" \in done
       THEN <<[rows EXCEPT ![id] = new], SyncUpdate(av3, acc, new)>>
       ELSE <<[rows EXCEPT ![id] = acc], av3>>

\* what is kept of a call with failed writes: the call, the state it left, and the
\* state a run without failures would have left
Interrupted(call, partial, full) == [call |-> call, partial |-> partial, full |-> full]

\* one call per run loses some, but not all, of its writes; it answers an open
\* proposal, or is made by the counselor the transfer was requested to
studentRespondToRescheduleFailing(id, accept, done) ==
    /\ supabaseUp /\ interrupted = NoRow
    /\ id \in DOMAIN appointments
    /\ appointments[id].rescheduleProposedDate # NULL
    /\ done # {} /\ done # RescheduleWrites
    /\ LET partial == ResolveWith(appointments, availability, id, accept, done)
           full == ResolveWith(appointments, availability, id, accept, RescheduleWrites)
           call == Call("studentRespondToReschedule", id, accept, "true")
       IN /\ appointments' = partial[1]
          /\ availability' = partial[2]
          /\ interrupted' = Interrupted(call, partial, full)
          /\ lastCall' = call
    /\ IF service = STORAGE
       THEN Notify(<<Notif(appointments[id].counselorId,
                           IF accept THEN "Student approved the reschedule"
                           ELSE "Student declined. Cancelled.")>>)
       ELSE notifications' = <<>> /\ UNCHANGED localNotifications
    /\ UNCHANGED <<localAppointments, localAvailability, supabaseUp, sinkUp, syncTrigger,
                   service, now, inflight, gateRequest, ignoredIds, views>>

respondToTransferFailing(id, receivingCounselorId, done) ==
    /\ service = V7 /\ supabaseUp /\ interrupted = NoRow
    /\ id \in DOMAIN appointments
    /\ FinalizeNow(appointments[id], TRUE)
    /\ receivingCounselorId = appointments[id].transferRequestToId
    /\ done # {} /\ done # FinalizeWrites
    /\ LET partial == FinalizeWith(appointments, availability, id, receivingCounselorId, done)
           full == FinalizeWith(appointments, availability, id, receivingCounselorId, FinalizeWrites)
           call == Call("respondToTransfer", id, <<TRUE, receivingCounselorId>>, "true")
       IN /\ appointments' = partial[1]
          /\ availability' = partial[2]
          /\ interrupted' = Interrupted(call, partial, full)
          /\ lastCall' = call
    /\ notifications' = <<>>
    /\ UNCHANGED <<localAppointments, localAvailability, localNotifications, supabaseUp,
                   sinkUp, syncTrigger, service, now, inflight, gateRequest,
                   ignoredIds, views>>

FailingWrites ==
    \/ \E id \in AllIds, accept \in BOOLEAN, done \in SUBSET RescheduleWrites :
          studentRespondToRescheduleFailing(id, accept, done)
    \/ \E id \in AllIds, c \in Counselors, done \in SUBSET FinalizeWrites :
          respondToTransferFailing(id, c, done)

\* the datastore paths of the two protocols
ProposeOnRow ==
    \/ \E id \in AllIds, d \in Dates, t \in Times : rescheduleAppointment(id, d, t)
    \/ \E id \in AllIds, d \in Dates, t \in Times : rescheduleAppointmentV7(id, d, t)

ResolveOnRow ==
    \/ \E id \in AllIds, accept \in BOOLEAN : studentRespondToReschedule(id, accept)
    \/ \E id \in AllIds, accept \in BOOLEAN : studentRespondToRescheduleV7(id, accept)

RequestFinalize ==
    \/ \E id \in AllIds, to \in Counselors : initiateTransferV7(id, to)
    \/ \E id \in AllIds, accept \in BOOLEAN : studentRespondToTransferV7(id, accept)

FinalizeOnRow ==
    \E id \in AllIds, accept \in BOOLEAN, c \in Counselors : respondToTransferV7(id, accept, c)

AnswerReschedule ==
    \/ \E id \in AllIds, accept \in BOOLEAN : studentRespondToReschedule(id, accept)
    \/ \E id \in AllIds, accept \in BOOLEAN : studentRespondToRescheduleLocal(id, accept)
    \/ \E id \in AllIds, accept \in BOOLEAN : studentRespondToRescheduleV7(id, accept)

\* the notifying operations on one appointment while the notification sink comes and goes
NextSink ==
    \/ BookBy(ProtocolStudents) /\ AtMost(MaxProtocolAppts)
    \/ ChangeStatus /\ AtMost(MaxProtocolAppts)
    \/ ProposeReschedule /\ AtMost(MaxProtocolAppts)
    \/ AnswerReschedule /\ AtMost(MaxProtocolAppts)
    \/ InitiateTransfer /\ AtMost(MaxProtocolAppts)
    \/ SinkOutage

SpecSink == Init /\ [][NextSink]_vars

\* the call that lost writes is made again with the same arguments
SameCall ==
    /\ interrupted # NoRow
    /\ lastCall'.op = interrupted.call.op
    /\ lastCall'.id = interrupted.call.id
    /\ lastCall'.args = interrupted.call.args

NoTransferOpen == \A i \in DOMAIN appointments : appointments[i].transferRequestToId = NULL
NoProposalOpen == \A i \in DOMAIN appointments : appointments[i].rescheduleProposedDate = NULL

\* either protocol on one appointment up to a call that loses some of its writes, and
\* the retries of that call
NextRetry ==
    \/ BookBy(ProtocolStudents) /\ AtMost(MaxProtocolAppts) /\ interrupted = NoRow
    \/ ProposeOnRow /\ interrupted = NoRow /\ NoTransferOpen
    \/ RequestFinalize /\ interrupted = NoRow /\ NoProposalOpen
    \/ ResolveOnRow /\ (interrupted = NoRow \/ SameCall)
    \/ FinalizeOnRow /\ (interrupted = NoRow \/ SameCall)
    \/ FailingWrites

SpecRetry == Init /\ [][NextRetry]_vars

\* bookings and confirmations by other sessions, seen by the mounted views
NextViews ==
    \/ BookBy(ProtocolStudents) /\ AtMost(MaxProtocolAppts)
    \/ Confirm /\ AtMost(MaxProtocolAppts)
    \/ \E v \in Views : onAppointmentsChange(v)
    \/ \E v \in Views : poll(v)

\* change events may be lost; an interval timer keeps firing
SpecViews == Init /\ [][NextViews]_vars /\ \A v \in Pollers : WF_vars(poll(v))

\* bookings and status changes with the re-sync script run at any moment
NextResync ==
    \/ BookBy(ProtocolStudents) /\ AtMost(MaxAppts)
    \/ ChangeStatus /\ AtMost(MaxAppts)
    \/ resync

SpecResync == Init /\ [][NextResync]_vars

\* one appointment held by both stores of storageService.ts in the same state: booked
\* with c1, plain, with a transfer to c2 requested, or with a reschedule proposed
InitPaths ==
    /\ service = STORAGE
    /\ supabaseUp = TRUE
    /\ sinkUp = TRUE
    /\ syncTrigger \in BOOLEAN
    /\ \E st \in {PENDING, CONFIRMED}, ca \in {"false", "true"}, sa \in {"false", "true"} :
          LET plain == NewRow(1, "s1", "c1", CounselorName("c1"), Today, <<9, 0>>, st)
              asked == [RequestedTransfer(plain, "c2", CounselorName("c2")) EXCEPT
                           !.transferCounselorAccepted = ca,
                           !.transferStudentAccepted = sa]
          IN \E row \in {plain, asked, Proposed(plain, Today, <<9, 30>>)} :
                /\ appointments = <<row>>
                /\ localAppointments =
                      initMockData \o <<[row EXCEPT !.id = LocalIdBase + 1]>>
    /\ availability = SetSlots(FullLedger, "c1", Today, <<9, 0>>, TRUE)
    /\ localAvailability = availability
    /\ notifications = <<>>
    /\ localNotifications = <<>>
    /\ now = <<8, 30>>
    /\ inflight = [p \in Sessions |-> Idle]
    /\ interrupted = NoRow
    /\ views = [v \in Views |-> Shown(v, getAppointments)]
    /\ gateRequest = 0
    /\ ignoredIds = {}
    /\ lastCall = Call("init", 0, <<>>, "void")

\* each call is made twice with the same arguments: on the datastore row while the
\* datastore is reachable, then on the in-memory entry while it is not
NextPaths ==
    \/ /\ lastCall.id # 1
       /\ \/ cancelTransfer(1)
          \/ \E accept \in BOOLEAN : respondToTransfer(1, accept, "c2")
          \/ \E accept \in BOOLEAN : studentRespondToTransfer(1, accept)
          \/ \E accept \in BOOLEAN : studentRespondToReschedule(1, accept)
    \/ /\ lastCall.id = 1 /\ ~supabaseUp
       /\ \/ cancelTransferLocal(LocalIdBase + 1)
          \/ \E accept \in BOOLEAN : respondToTransferLocal(LocalIdBase + 1, accept, "c2")
          \/ \E accept \in BOOLEAN : studentRespondToTransferLocal(LocalIdBase + 1, accept)
          \/ \E accept \in BOOLEAN : studentRespondToRescheduleLocal(LocalIdBase + 1, accept)
       /\ lastCall'.op = lastCall.op /\ lastCall'.args = lastCall.args
    \/ Outage /\ supabaseUp = (lastCall.id = 1)

SpecPaths == InitPaths /\ [][NextPaths]_vars

\* datastore path of storageService.ts: fetch the row, keep the stored slot of every
\* time still in the list, upsert
saveAvailability(counselorId, date, timeSlots) ==
    /\ service = STORAGE /\ supabaseUp
    /\ LET existing == Row(availability, counselorId, date)
           slotsToSave == IF existing # NoRow THEN MergeSlots(existing, timeSlots)
                          ELSE finalSlots(timeSlots)
       IN availability' = [availability EXCEPT ![<<counselorId, date>>] = slotsToSave]
    /\ lastCall' = Call("saveAvailability", 0, <<counselorId, date, timeSlots>>, "void")
    /\ UNCHANGED <<appointments, notifications, localAppointments, localAvailability,
                   localNotifications, env>>

\* catch branch: the same merge on the in-memory day, or a new day
saveAvailabilityLocal(counselorId, date, timeSlots) ==
    /\ service = STORAGE /\ ~supabaseUp
    /\ LET existingDay == Row(localAvailability, counselorId, date)
           slots == IF existingDay # NoRow THEN MergeSlots(existingDay, timeSlots)
                    ELSE finalSlots(timeSlots)
       IN localAvailability' = [localAvailability EXCEPT ![<<counselorId, date>>] = slots]
    /\ lastCall' = Call("saveAvailability", 0, <<counselorId, date, timeSlots>>, "void")
    /\ UNCHANGED <<appointments, availability, notifications, localAppointments,
                   localNotifications, env>>

\* part_007: the upsert replaces the row by the list with every slot unbooked
saveAvailabilityV7(counselorId, date, timeSlots) ==
    /\ service = V7 /\ supabaseUp
    /\ availability' = [availability EXCEPT ![<<counselorId, date>>] = finalSlots(timeSlots)]
    /\ lastCall' = Call("saveAvailability", 0, <<counselorId, date, timeSlots>>, "void")
    /\ UNCHANGED <<appointments, notifications, localAppointments, localAvailability,
                   localNotifications, env>>

\* bookings by one student while c1 edits the slots of its days; handleAddSlot and
\* handleDeleteSlot publish the times of a day in order
NextPublish ==
    LET lists == {<<>>, <<<<9, 0>>>>, <<<<9, 30>>>>, AllTimes}
    IN \/ BookBy(ProtocolStudents) /\ AtMost(MaxProtocolAppts)
       \/ \E d \in Dates, timeSlots \in lists : saveAvailability("c1", d, timeSlots)
       \/ \E d \in Dates, timeSlots \in lists : saveAvailabilityLocal("c1", d, timeSlots)
       \/ \E d \in Dates, timeSlots \in lists : saveAvailabilityV7("c1", d, timeSlots)

SpecPublish == Init /\ [][NextPublish]_vars

\* Layout of the counselor c1: the first VERIFYING appointment of the fetched list is
\* looked up; a closed one ends the check, another one is put in the modal, none empties it
checkPendingGateRequests ==
    /\ LET all == getAppointments
           hits == {i \in DOMAIN all : all[i].status = VERIFYING /\ all[i].counselorId = "c1"}
       IN IF hits # {}
          THEN LET pending == all[CHOOSE i \in hits : \A j \in hits : i <= j]
               IN IF pending.id \in ignoredIds
                  THEN UNCHANGED gateRequest
                  ELSE gateRequest' = pending.id
          ELSE gateRequest' = 0
    /\ UNCHANGED <<appointments, availability, notifications, localAppointments,
                   localAvailability, localNotifications, supabaseUp, sinkUp, syncTrigger,
                   service, now, inflight, interrupted, ignoredIds, views, lastCall>>

\* onClose of the VerificationModal: the shown id is remembered and the modal emptied
onClose ==
    /\ gateRequest # 0
    /\ ignoredIds' = ignoredIds \cup {gateRequest}
    /\ gateRequest' = 0
    /\ UNCHANGED <<appointments, availability, notifications, localAppointments,
                   localAvailability, localNotifications, supabaseUp, sinkUp, syncTrigger,
                   service, now, inflight, interrupted, views, lastCall>>

\* c1 logged in, two confirmed appointments with c1 in the datastore
InitModal ==
    /\ service = STORAGE
    /\ supabaseUp = TRUE
    /\ sinkUp = TRUE
    /\ syncTrigger \in BOOLEAN
    /\ appointments = <<NewRow(1, "s1", "c1", CounselorName("c1"), Today, <<9, 0>>, CONFIRMED),
                        NewRow(2, "s2", "c1", CounselorName("c1"), "2025-12-09", <<9, 0>>, CONFIRMED)>>
    /\ localAppointments = initMockData
    /\ availability = SetSlots(SetSlots(FullLedger, "c1", Today, <<9, 0>>, TRUE),
                               "c1", "2025-12-09", <<9, 0>>, TRUE)
    /\ localAvailability = NoLedger
    /\ notifications = <<>>
    /\ localNotifications = <<>>
    /\ now = <<8, 30>>
    /\ inflight = [p \in Sessions |-> Idle]
    /\ interrupted = NoRow
    /\ views = [v \in Views |-> Shown(v, getAppointments)]
    /\ gateRequest = 0
    /\ ignoredIds = {}
    /\ lastCall = Call("init", 0, <<>>, "void")

\* students arrive at the gate and the requests are decided, while the Layout re-checks
\* and the counselor closes the modal
NextModal ==
    \/ \E id \in DbIds, st \in {VERIFYING, CONFIRMED, CANCELLED} : updateAppointmentStatus(id, st)
    \/ checkPendingGateRequests
    \/ onClose

\* the check runs on mount and on every update event of a row of c1; the counselor
\* answers or closes a modal that is shown
SpecModal ==
    InitModal /\ [][NextModal]_vars /\ WF_vars(checkPendingGateRequests) /\ WF_vars(onClose)

(***************************************************************************)
(* Properties                                                              *)
(***************************************************************************)
Active(a) == a.status \in {PENDING, CONFIRMED}

SameSlot(a, b) == a.counselorId = b.counselorId /\ a.date = b.date /\ a.time = b.time

OneActivePerSlot(table) ==
    \A i, j \in DOMAIN table :
        (i # j /\ Active(table[i]) /\ Active(table[j])) => ~SameSlot(table[i], table[j])

\* C1: for every provider, date and time at most one Pending or Confirmed
\* appointment occupies (counselorId, date, time), in either store.
C1_OneActivePerSlot ==
    OneActivePerSlot(appointments) /\ OneActivePerSlot(localAppointments)

OneActivePerDay(table) ==
    \A i, j \in DOMAIN table :
        (i # j /\ Active(table[i]) /\ Active(table[j]) /\ table[i].studentId = table[j].studentId)
            => table[i].date # table[j].date

\* C2: every requester holds at most one Pending or Confirmed appointment per
\* calendar date, across all providers.
C2_OneActivePerDay ==
    OneActivePerDay(appointments) /\ OneActivePerDay(localAppointments)

AllowedTransitions ==
    {<<PENDING, CONFIRMED>>, <<PENDING, CANCELLED>>,
     <<CONFIRMED, COMPLETED>>, <<CONFIRMED, CANCELLED>>}

LegalStatusSteps(old, new) ==
    \A i \in DOMAIN old :
        (i \in DOMAIN new /\ old[i].status # new[i].status)
            => <<old[i].status, new[i].status>> \in AllowedTransitions

\* C3: a status only changes along Pending->Confirmed, Pending->Cancelled,
\* Confirmed->Completed or Confirmed->Cancelled; Completed and Cancelled are final.
C3_LegalStatusSteps ==
    [][LegalStatusSteps(appointments, appointments')
       /\ LegalStatusSteps(localAppointments, localAppointments')]_vars

CancelFreesSlot(old, new, avNew) ==
    \A i \in DOMAIN old :
        (i \in DOMAIN new /\ Active(old[i]) /\ new[i].status = CANCELLED)
            => ~IsBooked(avNew, old[i].counselorId, old[i].date, old[i].time)

\* C4: every step that takes an appointment from Pending or Confirmed into
\* Cancelled leaves the slot (provider, date, time) of that appointment not booked.
C4_CancelFreesSlot ==
    [][CancelFreesSlot(appointments, appointments', availability')
       /\ CancelFreesSlot(localAppointments, localAppointments', localAvailability')]_vars

\* the step is an accepting respondToTransfer that ran finalize on row old
TransferFinalized(old, new) ==
    /\ lastCall'.op = "respondToTransfer"
    /\ lastCall'.id = old.id
    /\ lastCall'.args[1]
    /\ new.transferCounselorAccepted = NULL

FinalizeNeedsBothAccepted(old, new) ==
    \A i \in DOMAIN old :
        (i \in DOMAIN new /\ TransferFinalized(old[i], new[i]))
            => (old[i].transferRequestToId # NULL /\ old[i].transferStudentAccepted = "true")

\* C5: finalize runs only on an appointment that has an outstanding transfer
\* request which the requester has accepted, the target's acceptance being the call itself.
C5_FinalizeNeedsBothAccepted ==
    [][FinalizeNeedsBothAccepted(appointments, appointments')
       /\ FinalizeNeedsBothAccepted(localAppointments, localAppointments')]_vars

BothAccepted(a) ==
    /\ a.transferRequestToId \notin {NULL, a.counselorId}
    /\ a.transferCounselorAccepted = "true"
    /\ a.transferStudentAccepted = "true"

\* C6: no call leaves a transfer request to another provider outstanding with
\* both acceptances recorded: the acceptance that completes the pair finalizes
\* the transfer.
C6_BothAcceptedFinalizes ==
    /\ \A i \in DOMAIN appointments : ~BothAccepted(appointments[i])
    /\ \A i \in DOMAIN localAppointments : ~BothAccepted(localAppointments[i])

TransferCleared(a) ==
    /\ a.transferRequestToId = NULL /\ a.transferRequestToName = NULL
    /\ a.transferCounselorAccepted = NULL /\ a.transferStudentAccepted = NULL

BookedProviders(av, d, t) == {c \in Counselors : IsBooked(av, c, d, t)}

FinalizeAsClaimed(old, new, avNew) ==
    \A i \in DOMAIN old :
        (/\ i \in DOMAIN new
         /\ TransferFinalized(old[i], new[i])
         /\ old[i].transferRequestToId = lastCall'.args[2]
         /\ old[i].transferRequestToId # old[i].counselorId) =>
            LET target == old[i].transferRequestToId
            IN /\ ~IsBooked(avNew, old[i].counselorId, old[i].date, old[i].time)
               /\ IsBooked(avNew, target, old[i].date, old[i].time)
               /\ new[i].counselorId = target
               /\ new[i].counselorName = old[i].transferRequestToName
               /\ TransferCleared(new[i])
               /\ new[i].status = CONFIRMED
               /\ BookedProviders(avNew, old[i].date, old[i].time) = {target}

FinalizeEffect(old, new, av, avNew) ==
    \A i \in DOMAIN old :
        (i \in DOMAIN new /\ TransferFinalized(old[i], new[i])) =>
            LET receiving == lastCall'.args[2]
            IN /\ receiving # old[i].counselorId
                    => ~IsBooked(avNew, old[i].counselorId, old[i].date, old[i].time)
               /\ IsBooked(avNew, receiving, old[i].date, old[i].time)
                    <=> IsPublished(av, receiving, old[i].date, old[i].time)
               /\ new[i].counselorId = receiving
               /\ new[i].counselorName = CounselorName(receiving)
               /\ TransferCleared(new[i])
               /\ new[i].status = CONFIRMED
               /\ new[i].date = old[i].date /\ new[i].time = old[i].time

TargetCrowded(table, a, to) ==
    \E j \in DOMAIN table :
        /\ table[j].id # a.id
        /\ to # a.counselorId
        /\ table[j].counselorId = to
        /\ table[j].date = a.date
        /\ table[j].status = CONFIRMED
        /\ hasIntervalConflict(a.time, <<table[j].time>>)

CrowdedTransferRejected(old, new) ==
    \A i \in DOMAIN old :
        (lastCall'.id = old[i].id /\ TargetCrowded(old, old[i], lastCall'.args))
            => /\ lastCall'.ret = "false"
               /\ new = old
               /\ notifications' = <<>> /\ localNotifications' = <<>>

\* C8: initiateTransfer towards a provider who has a Confirmed appointment on
\* that date less than 80 minutes from the appointment's time fails, writes no
\* transfer field and sends no notification.
C8_CrowdedTransferRejected ==
    [][lastCall'.op = "initiateTransfer"
       => /\ CrowdedTransferRejected(appointments, appointments')
          /\ CrowdedTransferRejected(localAppointments, localAppointments')]_vars

ProposalActive(a) == a.rescheduleProposedDate # NULL /\ a.rescheduleProposedTime # NoTime

\* the step is the requester's answer to the proposal standing on row old
RescheduleAnswered(old, accept) ==
    /\ lastCall'.op = "studentRespondToReschedule"
    /\ lastCall'.id = old.id
    /\ lastCall'.args = accept
    /\ ProposalActive(old)

ProposalCleared(a) == a.rescheduleProposedDate = NULL /\ a.rescheduleProposedTime = NoTime

DeclineCancels(old, new, avNew) ==
    \A i \in DOMAIN old :
        (i \in DOMAIN new /\ RescheduleAnswered(old[i], FALSE))
            => /\ new[i].status = CANCELLED
               /\ ~IsBooked(avNew, old[i].counselorId, old[i].date, old[i].time)
               /\ ProposalCleared(new[i])

\* C9: declining a reschedule proposal leaves the appointment Cancelled, its
\* original slot not booked and both proposal fields cleared.
C9_DeclineCancels ==
    [][DeclineCancels(appointments, appointments', availability')
       /\ DeclineCancels(localAppointments, localAppointments', localAvailability')]_vars

AcceptAsClaimed(old, new, avNew) ==
    \A i \in DOMAIN old :
        (/\ i \in DOMAIN new
         /\ RescheduleAnswered(old[i], TRUE)
         /\ <<old[i].rescheduleProposedDate, old[i].rescheduleProposedTime>>
                # <<old[i].date, old[i].time>>)
            => /\ new[i].date = old[i].rescheduleProposedDate
               /\ new[i].time = old[i].rescheduleProposedTime
               /\ new[i].status = CONFIRMED
               /\ ProposalCleared(new[i])
               /\ ~IsBooked(avNew, old[i].counselorId, old[i].date, old[i].time)
               /\ IsBooked(avNew, old[i].counselorId,
                           old[i].rescheduleProposedDate, old[i].rescheduleProposedTime)

AcceptEffect(old, new, av, avNew) ==
    \A i \in DOMAIN old :
        (i \in DOMAIN new /\ RescheduleAnswered(old[i], TRUE))
            => LET newDate == old[i].rescheduleProposedDate
                   newTime == old[i].rescheduleProposedTime
               IN /\ new[i].date = newDate
                  /\ new[i].time = newTime
                  /\ new[i].status = CONFIRMED
                  /\ ProposalCleared(new[i])
                  /\ <<newDate, newTime>> # <<old[i].date, old[i].time>>
                        => ~IsBooked(avNew, old[i].counselorId, old[i].date, old[i].time)
                  /\ IsBooked(avNew, old[i].counselorId, newDate, newTime)
                        <=> IsPublished(av, old[i].counselorId, newDate, newTime)

RescheduledTo(a, av) ==
    /\ a.id = lastCall.id
    /\ a.status = CONFIRMED
    /\ ProposalCleared(a)
    /\ IsBooked(av, a.counselorId, a.date, a.time)
    /\ \E d \in Dates, t \in Times :
          /\ <<d, t>> # <<a.date, a.time>>
          /\ IsPublished(av, a.counselorId, d, t)
          /\ ~IsBooked(av, a.counselorId, d, t)

AwaitingDecision(a) == a.status = VERIFYING \/ a.isAtGate

\* the step is the counselor's allow or deny decision on row old
GateDecided(old) ==
    /\ lastCall'.op = "updateAppointmentStatus"
    /\ lastCall'.id = old.id
    /\ \/ lastCall'.args \in {ACCEPTED, DENIED}
       \/ old.status = VERIFYING /\ lastCall'.args \in {CONFIRMED, CANCELLED}

EarlyDecisionRejected(old, new, av, avNew) ==
    \A i \in DOMAIN old :
        (/\ i \in DOMAIN new
         /\ AwaitingDecision(old[i])
         /\ GateDecided(old[i])
         /\ isTooEarly(old[i]))
            => new[i] = old[i] /\ avNew = av

\* C11: a gate allow or deny decision submitted while the appointment's start
\* is more than 15 minutes away is rejected by the call that applies it: the
\* appointment and the slots are left as they were.
C11_EarlyDecisionRejected ==
    [][EarlyDecisionRejected(appointments, appointments', availability, availability')
       /\ EarlyDecisionRejected(localAppointments, localAppointments',
                                localAvailability, localAvailability')]_vars

\* the gate request on row a has been answered: the flag is down and the status
\* holds the decision
GateResolved(a) == ~a.isAtGate /\ a.status \in {ACCEPTED, DENIED}

\* the step is a call (the clock stands still) that submits a decision on row old
DecidedAgain(old) ==
    /\ now' = now
    /\ lastCall'.op = "updateAppointmentStatus"
    /\ lastCall'.id = old.id
    /\ lastCall'.args \in {ACCEPTED, DENIED}

NotifiedNow(userId) ==
    \/ \E k \in DOMAIN notifications' : notifications'[k].userId = userId
    \/ \E k \in DOMAIN localNotifications' : localNotifications'[k].userId = userId

SecondDecisionIgnored(old, new, av, avNew) ==
    \A i \in DOMAIN old :
        (i \in DOMAIN new /\ GateResolved(old[i]) /\ DecidedAgain(old[i]))
            => /\ new[i] = old[i]
               /\ avNew = av
               /\ ~NotifiedNow(old[i].studentId)

\* C12: a second gate decision on an appointment whose gate request is already
\* resolved changes no field of the appointment and no slot flag, and creates
\* no further notification for the requester.
C12_SecondDecisionIgnored ==
    [][SecondDecisionIgnored(appointments, appointments', availability, availability')
       /\ SecondDecisionIgnored(localAppointments, localAppointments',
                                localAvailability, localAvailability')]_vars

TransferActive(a) == a.transferRequestToId # NULL

RescheduleActive(a) == a.rescheduleProposedDate # NULL \/ a.rescheduleProposedTime # NoTime

OneSubState(rows) == \A i \in DOMAIN rows : ~(TransferActive(rows[i]) /\ RescheduleActive(rows[i]))

\* C13: on every appointment at most one of the transfer sub-state (target id
\* set) and the reschedule sub-state (proposed date or time set) is non-null,
\* whatever order initiateTransfer and rescheduleAppointment are called in.
C13_OneSubState == OneSubState(appointments) /\ OneSubState(localAppointments)

GateOnlyOnConfirmed(rows) == \A i \in DOMAIN rows : rows[i].isAtGate => rows[i].status = CONFIRMED

\* C14: the gate sub-state is active only on Confirmed appointments: no
\* Pending, Cancelled or Completed appointment is awaiting an entry decision.
C14_GateOnlyOnConfirmed ==
    GateOnlyOnConfirmed(appointments) /\ GateOnlyOnConfirmed(localAppointments)

\* the step is the counselor's allow decision on row old, Confirmed and at the gate
GateAllowed(old) ==
    /\ lastCall'.op = "updateAppointmentStatus"
    /\ lastCall'.id = old.id
    /\ lastCall'.args = ACCEPTED
    /\ old.status = CONFIRMED
    /\ old.isAtGate

AllowKeepsConfirmed(old, new) ==
    \A i \in DOMAIN old :
        (i \in DOMAIN new /\ GateAllowed(old[i]))
            => ~new[i].isAtGate /\ new[i].status = CONFIRMED

\* C15: a gate allow decision clears the awaiting-decision flag but leaves the
\* appointment's scheduling status Confirmed; only a later, separate call
\* moves it to Completed.
C15_AllowKeepsConfirmed ==
    [][AllowKeepsConfirmed(appointments, appointments')
       /\ AllowKeepsConfirmed(localAppointments, localAppointments')]_vars

\* the requester holds a Pending or Confirmed appointment at (d, t)
HoldsSlot(s, d, t) ==
    StudentConflicts(appointments, s, d, t) # {} \/ StudentConflicts(localAppointments, s, d, t) # {}

\* the step is a saveAppointment call for a slot the requester already holds
\* (the datastore neither went nor came back in this step)
SavedAgain ==
    /\ supabaseUp' = supabaseUp
    /\ lastCall'.op = "saveAppointment"
    /\ HoldsSlot(lastCall'.args[1], lastCall'.args[3], lastCall'.args[4])

\* C16: saveAppointment for a requester who already holds a Pending or
\* Confirmed appointment at the same (date, time) reports failure and has no
\* side effect: no row is created, no slot flag changes, no notification is made.
C16_DuplicateSaveFails ==
    [][SavedAgain =>
          /\ lastCall'.ret = NULL
          /\ UNCHANGED <<appointments, localAppointments, availability, localAvailability>>
          /\ notifications' = <<>> /\ localNotifications' = <<>>]_vars

\* two Confirmed appointments of one provider on one date, at different times
ConfirmedPair(a, b) ==
    /\ a.status = CONFIRMED /\ b.status = CONFIRMED
    /\ a.counselorId = b.counselorId
    /\ a.date = b.date
    /\ a.time # b.time

IntervalKept(rows) ==
    \A i, j \in DOMAIN rows :
        (i # j /\ ConfirmedPair(rows[i], rows[j]))
            => Abs(timeToMinutes(rows[i].time) - timeToMinutes(rows[j].time)) >= MIN_INTERVAL_MINUTES

\* C17: no provider holds two Confirmed appointments on the same date whose
\* times are less than 80 minutes apart.
C17_IntervalKept == IntervalKept(appointments) /\ IntervalKept(localAppointments)

\* no requester has two Pending or Confirmed appointments at one (date, time)
ExactSlotOnce(rows) ==
    \A i, j \in DOMAIN rows :
        (/\ i # j
         /\ rows[i].studentId = rows[j].studentId
         /\ rows[i].date = rows[j].date
         /\ rows[i].time = rows[j].time)
            => ~(IsBookedStatus(rows[i].status) /\ IsBookedStatus(rows[j].status))

\* C18: two saveAppointment calls for the same requester and the same (date,
\* time) whose check and insert steps interleave never both succeed: at most
\* one row is created.
C18_ExactSlotOnce == ExactSlotOnce(appointments) /\ ExactSlotOnce(localAppointments)

\* the step is the original provider's cancelTransfer on row old, whose request
\* to another provider is outstanding
TransferCancelled(old) ==
    /\ lastCall'.op = "cancelTransfer"
    /\ lastCall'.id = old.id
    /\ old.transferRequestToId \notin {NULL, old.counselorId}

\* the step answers a transfer request on row old that is no longer outstanding
StaleTransferAnswer(old) ==
    /\ lastCall'.op \in {"respondToTransfer", "studentRespondToTransfer"}
    /\ lastCall'.id = old.id
    /\ old.transferRequestToId = NULL

CancelRevokes(old, new) ==
    \A i \in DOMAIN old :
        i \in DOMAIN new =>
            /\ TransferCancelled(old[i]) =>
                  /\ new[i].transferRequestToId = NULL
                  /\ new[i].transferCounselorAccepted # "true"
                  /\ new[i].transferStudentAccepted # "true"
                  /\ NotifiedNow(old[i].transferRequestToId)
                  /\ NotifiedNow(old[i].studentId)
            /\ StaleTransferAnswer(old[i]) => new[i].counselorId = old[i].counselorId

\* C19: cancelTransfer on an outstanding request clears the target id and both
\* acceptance flags and notifies the target provider and the requester; no
\* later answer to the revoked request reassigns the appointment.
C19_CancelRevokes ==
    [][CancelRevokes(appointments, appointments')
       /\ CancelRevokes(localAppointments, localAppointments')]_vars

\* the step is a decline, by the target provider or by the requester, of the
\* request to another provider that stands on row old
TransferDeclined(old) ==
    /\ lastCall'.id = old.id
    /\ old.transferRequestToId \notin {NULL, old.counselorId}
    /\ \/ /\ lastCall'.op = "respondToTransfer"
          /\ ~lastCall'.args[1]
          /\ lastCall'.args[2] = old.transferRequestToId
       \/ lastCall'.op = "studentRespondToTransfer" /\ ~lastCall'.args

DeclineClears(old, new) ==
    \A i \in DOMAIN old :
        (i \in DOMAIN new /\ TransferDeclined(old[i]))
            => /\ new[i].transferRequestToId = NULL
               /\ new[i].transferRequestToName = NULL
               /\ new[i].transferCounselorAccepted # "true"
               /\ new[i].transferStudentAccepted # "true"
               /\ new[i].counselorId = old[i].counselorId
               /\ new[i].status = old[i].status
               /\ new[i].date = old[i].date
               /\ new[i].time = old[i].time
               /\ NotifiedNow(old[i].counselorId)

\* C20: when the target provider or the requester declines a transfer, the
\* whole transfer sub-state is cleared (target id, target name, both flags),
\* the appointment keeps its provider, status, date and time, and the
\* original provider is notified.
C20_DeclineClears ==
    [][DeclineClears(appointments, appointments')
       /\ DeclineClears(localAppointments, localAppointments')]_vars

\* the step is initiateTransfer or rescheduleAppointment on row old
SubStateRequested(old) ==
    /\ lastCall'.op \in {"initiateTransfer", "rescheduleAppointment"}
    /\ lastCall'.id = old.id

TerminalRejects(old, new) ==
    \A i \in DOMAIN old :
        (/\ i \in DOMAIN new
         /\ old[i].status \in {CANCELLED, COMPLETED}
         /\ SubStateRequested(old[i]))
            => new[i] = old[i]

\* C21: initiateTransfer and rescheduleAppointment on a Cancelled or Completed
\* appointment mutate nothing: a terminal appointment never acquires a
\* transfer target or a reschedule proposal.
C21_TerminalRejects ==
    [][TerminalRejects(appointments, appointments')
       /\ TerminalRejects(localAppointments, localAppointments')]_vars

SameButProposal(a, b) ==
    [a EXCEPT !.rescheduleProposedDate = b.rescheduleProposedDate,
              !.rescheduleProposedTime = b.rescheduleProposedTime] = b

\* the rows of a table differ from the old ones at most in the proposal fields
OnlyProposalChanged(old, new) ==
    /\ DOMAIN new = DOMAIN old
    /\ \A i \in DOMAIN old : SameButProposal(new[i], old[i])

\* the row the call names carries the proposal the call was given
ProposalWritten(new) ==
    \A i \in DOMAIN new :
        new[i].id = lastCall'.id
            => /\ new[i].rescheduleProposedDate = lastCall'.args[1]
               /\ new[i].rescheduleProposedTime = lastCall'.args[2]

\* C22: rescheduleAppointment changes only the proposal fields of the
\* appointment: no slot flag of either ledger changes (a booked slot stays
\* booked) and date, time and status of every appointment are as before.
C22_ProposeFrame ==
    [][lastCall'.op = "rescheduleAppointment" =>
          /\ OnlyProposalChanged(appointments, appointments')
          /\ OnlyProposalChanged(localAppointments, localAppointments')
          /\ ProposalWritten(appointments') /\ ProposalWritten(localAppointments')
          /\ UNCHANGED <<availability, localAvailability>>]_vars

\* a proposal for another slot stands on a Pending or Confirmed appointment
\* whose own slot is booked
ProposedOnBooked(rows, av) ==
    \E i \in DOMAIN rows :
        /\ rows[i].id = lastCall.id
        /\ IsBookedStatus(rows[i].status)
        /\ rows[i].rescheduleProposedDate # NULL
        /\ <<rows[i].rescheduleProposedDate, rows[i].rescheduleProposedTime>>
              # <<rows[i].date, rows[i].time>>
        /\ IsBooked(av, rows[i].counselorId, rows[i].date, rows[i].time)

C22_Witness ==
    /\ lastCall.op = "rescheduleAppointment"
    /\ lastCall.ret = "true"
    /\ ProposedOnBooked(appointments, availability)

\* the row the call names, when there is one, carries no proposal
ProposalRetracted(new) ==
    \A i \in DOMAIN new : new[i].id = lastCall'.id => ProposalCleared(new[i])

\* C23: cancelRescheduleProposal clears the proposed date and time and leaves
\* status, date, time and every other field of the appointment, and every
\* slot flag, unchanged.
C23_RetractFrame ==
    [][(lastCall'.op = "cancelRescheduleProposal" /\ lastCall'.ret = "true") =>
          /\ OnlyProposalChanged(appointments, appointments')
          /\ OnlyProposalChanged(localAppointments, localAppointments')
          /\ ProposalRetracted(appointments') /\ ProposalRetracted(localAppointments')
          /\ UNCHANGED <<availability, localAvailability>>]_vars

\* the retracted appointment is Pending or Confirmed and its slot is booked
RetractedOnBooked(rows, av) ==
    \E i \in DOMAIN rows :
        /\ rows[i].id = lastCall.id
        /\ IsBookedStatus(rows[i].status)
        /\ ProposalCleared(rows[i])
        /\ IsBooked(av, rows[i].counselorId, rows[i].date, rows[i].time)

C23_Witness ==
    /\ lastCall.op = "cancelRescheduleProposal"
    /\ lastCall.ret = "true"
    /\ \/ RetractedOnBooked(appointments, availability)
       \/ RetractedOnBooked(localAppointments, localAvailability)

\* some Pending or Confirmed appointment of the table sits on (c, d, t)
Occupied(rows, c, d, t) ==
    \E i \in DOMAIN rows :
        /\ rows[i].counselorId = c /\ rows[i].date = d /\ rows[i].time = t
        /\ IsBookedStatus(rows[i].status)

LedgerMatches(av, rows) ==
    \A c \in Counselors, d \in Dates :
        \A k \in DOMAIN Row(av, c, d) :
            Row(av, c, d)[k].isBooked <=> Occupied(rows, c, d, Row(av, c, d)[k].time)

\* C24: every published slot (P, D, T) is booked exactly when some appointment
\* with (counselorId, date, time) = (P, D, T) is Pending or Confirmed.
C24_LedgerMatches ==
    LedgerMatches(availability, appointments) /\ LedgerMatches(localAvailability, localAppointments)

\* the slot times of a row, each with the number of slots that carry it
TimesOf(slots) ==
    [t \in {slots[i].time : i \in DOMAIN slots} |->
        Cardinality({i \in DOMAIN slots : slots[i].time = t})]

SameTimes(av, avNew) ==
    /\ DOMAIN avNew = DOMAIN av
    /\ \A k \in DOMAIN av : TimesOf(avNew[k]) = TimesOf(av[k])

\* C25: the re-sync script, run from any ledger state, leaves every slot
\* booked exactly when a Pending or Confirmed appointment exists for its
\* (provider, date, time), keeps the slot times of every row, and changes
\* nothing when run again.
C25_ResyncRepairs ==
    [][lastCall'.op = "resync" =>
          /\ LedgerMatches(availability', appointments')
          /\ SameTimes(availability, availability')
          /\ Resync(availability', appointments') = availability'
          /\ UNCHANGED appointments]_vars

\* the script has just repaired a ledger: a slot is free although a Completed
\* or Cancelled appointment sits on it, and another one is booked
C25_Witness ==
    /\ lastCall.op = "resync"
    /\ \E i \in DOMAIN appointments :
           /\ ~IsBookedStatus(appointments[i].status)
           /\ IsPublished(availability, appointments[i].counselorId,
                           appointments[i].date, appointments[i].time)
           /\ ~IsBooked(availability, appointments[i].counselorId,
                         appointments[i].date, appointments[i].time)
    /\ \E i \in DOMAIN appointments :
           IsBooked(availability, appointments[i].counselorId,
                    appointments[i].date, appointments[i].time)

(***************************************************************************)
(* C26: a failing notification sink never fails the parent operation       *)
(***************************************************************************)
\* a call made against a datastore row while the sink rejects every insert
SinkDownOn(op) ==
    /\ ~sinkUp /\ ~sinkUp'
    /\ supabaseUp
    /\ lastCall'.op = op
    /\ lastCall'.id \in DOMAIN appointments

SavedDespite ==
    (/\ ~sinkUp /\ ~sinkUp' /\ supabaseUp
     /\ lastCall'.op = "saveAppointment"
     /\ Len(appointments') > Len(appointments) \/ lastCall'.ret # NULL)
    => /\ lastCall'.ret = "appointment"
       /\ Len(appointments') = Len(appointments) + 1
       /\ appointments'[Len(appointments')].status = PENDING
       /\ appointments'[Len(appointments')].studentId = lastCall'.args[1]

StatusDespite ==
    SinkDownOn("updateAppointmentStatus")
    => /\ lastCall'.ret = "void"
       /\ appointments'[lastCall'.id].status = lastCall'.args

ResolvedDespite ==
    SinkDownOn("studentRespondToReschedule")
    => /\ lastCall'.ret = "true"
       /\ appointments'[lastCall'.id].status = IF lastCall'.args THEN CONFIRMED ELSE CANCELLED
       /\ appointments'[lastCall'.id].rescheduleProposedDate = NULL

TransferDespite ==
    SinkDownOn("initiateTransfer")
    => /\ lastCall'.ret = "true"
       /\ appointments'[lastCall'.id].transferRequestToId = lastCall'.args

Retried ==
    /\ SameCall
    /\ interrupted' = interrupted
    /\ appointments = interrupted.partial[1]
    /\ availability = interrupted.partial[2]

RebookNoOp ==
    \A c \in Counselors, d \in Dates, t \in Times :
        IsBooked(availability, c, d, t) => updateSlotStatus(availability, c, d, t, TRUE) = availability

\* C27: when a reschedule resolution or a transfer finalize has lost some of its
\* writes (slot freed, slot booked, row updated), making the same call again leaves
\* the appointments and the ledger as a run without failures would have left them;
\* booking a slot that is already booked leaves the ledger as it is
C27_RetryCompletes ==
    [][/\ Retried => /\ appointments' = interrupted.full[1]
                     /\ availability' = interrupted.full[2]
       /\ RebookNoOp]_vars

(***************************************************************************)
(* C28: confirming a Pending appointment                                   *)
(***************************************************************************)
ConfirmedFromPending(old, new) ==
    /\ lastCall'.op = "updateAppointmentStatus"
    /\ lastCall'.args = CONFIRMED
    /\ lastCall'.id = old.id
    /\ old.status = PENDING
    /\ new.status = CONFIRMED

ConfirmClears(old, new) ==
    \A i \in DOMAIN old :
        (i \in DOMAIN new /\ ConfirmedFromPending(old[i], new[i]))
        => ~TransferActive(new[i]) /\ ~AwaitingDecision(new[i])

ConfirmKeepsSlot ==
    \A i \in DOMAIN appointments :
        (/\ i \in DOMAIN appointments'
         /\ ConfirmedFromPending(appointments[i], appointments'[i])
         /\ IsBooked(availability, appointments[i].counselorId, appointments[i].date,
                     appointments[i].time))
        => IsBooked(availability', appointments[i].counselorId, appointments[i].date,
                    appointments[i].time)

\* C28: a status change from Pending to Confirmed leaves the appointment's slot
\* booked, and the confirmed appointment carries no transfer request and awaits no
\* gate decision
C28_ConfirmClears ==
    [][/\ ConfirmKeepsSlot
       /\ ConfirmClears(appointments, appointments')
       /\ ConfirmClears(localAppointments, localAppointments')]_vars

(***************************************************************************)
(* C29: a change that was not applied is reported as a failure             *)
(***************************************************************************)
\* the step is a call addressed to an id that names no appointment in either store
UnknownIdCalled ==
    /\ lastCall'.op \notin {"init", "saveAppointment"}
    /\ lastCall'.id \notin DOMAIN appointments
    /\ LocalIndex(lastCall'.id) = 0

NothingApplied ==
    /\ appointments' = appointments
    /\ localAppointments' = localAppointments

FailureReported == lastCall'.ret \in {"false", NULL, "error"}

\* C29: a call addressed to an unknown appointment id applies nothing and returns
\* false, null or an error, never success
C29_UnappliedReportsFailure ==
    [][UnknownIdCalled => NothingApplied /\ FailureReported]_vars

(***************************************************************************)
(* C30: the views catch up with the appointments                           *)
(***************************************************************************)
UpToDate(v) == views[v] = Shown(v, getAppointments)

\* C30: every view that subscribes to appointment changes shows, again and again,
\* exactly the appointments a fetch from the reachable datastore would return,
\* although change events may be lost
C30_ViewsCatchUp == \A v \in Subscribers : []<>(supabaseUp => UpToDate(v))

(***************************************************************************)
(* C31: one notification per applied status change                         *)
(***************************************************************************)
\* the appointment a status call acts on in the given stores, NoRow when there is none
StatusTarget(up, rows, localRows, id) ==
    IF up /\ id \in DOMAIN rows THEN rows[id]
    ELSE IF service = STORAGE /\ \E i \in DOMAIN localRows : localRows[i].id = id
         THEN localRows[CHOOSE i \in DOMAIN localRows : localRows[i].id = id]
         ELSE NoRow

StatusCalled ==
    /\ lastCall'.op = "updateAppointmentStatus"
    /\ lastCall'.args \in {CONFIRMED, CANCELLED, COMPLETED}

OneNotification ==
    LET old == StatusTarget(supabaseUp, appointments, localAppointments, lastCall'.id)
        new == StatusTarget(supabaseUp, appointments', localAppointments', lastCall'.id)
        sent == notifications' \o localNotifications'
    IN IF old # NoRow
       THEN /\ new.status = lastCall'.args
            /\ sent = <<Notif(old.studentId, StatusMessage(lastCall'.args))>>
       ELSE /\ sent = <<>>
            /\ appointments' = appointments
            /\ localAppointments' = localAppointments

AnsweredWithoutProposal ==
    /\ lastCall'.op = "studentRespondToReschedule"
    /\ LET a == StatusTarget(supabaseUp, appointments, localAppointments, lastCall'.id)
       IN /\ a # NoRow
          /\ a.rescheduleProposedDate = NULL
          /\ a.rescheduleProposedTime = NoTime

\* C32: studentRespondToReschedule on an appointment without an active proposal
\* changes no appointment and no slot flag, in the datastore and in the fallback
\* store, and does not report success
C32_NoProposalRejected ==
    [][AnsweredWithoutProposal
       => /\ appointments' = appointments
          /\ localAppointments' = localAppointments
          /\ availability' = availability
          /\ localAvailability' = localAvailability
          /\ lastCall'.ret # "true"]_vars

(***************************************************************************)
(* C33: the interval check                                                 *)
(***************************************************************************)
\* minutes since midnight of hh:mm
Minutes(t) == 60 * t[1] + t[2]

\* some existing time lies less than 80 minutes from the target
WithinEighty(newTime, existingTimes) ==
    \E i \in 1..Len(existingTimes) :
        \/ 0 <= Minutes(newTime) - Minutes(existingTimes[i])
           /\ Minutes(newTime) - Minutes(existingTimes[i]) < 80
        \/ 0 <= Minutes(existingTimes[i]) - Minutes(newTime)
           /\ Minutes(existingTimes[i]) - Minutes(newTime) < 80

\* C33: hasIntervalConflict reports a conflict exactly when some existing time is
\* less than 80 minutes from the target time in minutes since midnight; times
\* exactly 80 minutes apart do not conflict, and an empty list never conflicts
C33_IntervalCheck ==
    (lastCall.op = "hasIntervalConflict" /\ lastCall.ret # "pending")
    => /\ lastCall.ret = "true" <=> WithinEighty(lastCall.args[1], lastCall.args[2])
       /\ lastCall.args[2] = <<>> => lastCall.ret = "false"

\* 09:00 was checked against 10:20 and 07:40, both exactly 80 minutes away: no conflict
C33_Witness ==
    /\ lastCall.op = "hasIntervalConflict"
    /\ lastCall.args = <<<<9, 0>>, <<<<10, 20>>, <<7, 40>>>>>>
    /\ lastCall.ret = "false"

(***************************************************************************)
(* C34: two interleaved updateSlotStatus calls                             *)
(***************************************************************************)
SlotFlag(av, c, d, t) == IsBooked(av, c, d, t)

\* both sessions have completed an updateSlotStatus call, for different times of one row
BothSlotCallsDone ==
    /\ \A p \in Sessions : inflight[p] # Idle /\ inflight[p].done
    /\ inflight["tab1"].c = inflight["tab2"].c
    /\ inflight["tab1"].d = inflight["tab2"].d
    /\ inflight["tab1"].t # inflight["tab2"].t

\* C34: when two updateSlotStatus calls on one ledger row, for different times, have
\* both completed, each of the two slots carries the flag its own call wrote
C34_NoLostUpdate ==
    BothSlotCallsDone
    => \A p \in Sessions :
          SlotFlag(availability, inflight[p].c, inflight[p].d, inflight[p].t) = inflight[p].isBooked

(***************************************************************************)
(* C35: a saved appointment stays visible                                  *)
(***************************************************************************)
Fetched(id) == \E i \in DOMAIN getAppointments : getAppointments[i].id = id

\* the appointments saveAppointment returned: the datastore rows and the entries it
\* pushed to the fallback store (the mock entry was seeded, not saved)
SavedIds ==
    {appointments[i].id : i \in DOMAIN appointments}
    \cup {localAppointments[i].id : i \in {j \in DOMAIN localAppointments :
                                              localAppointments[j].id # LocalIdBase}}

\* C35: every appointment for which saveAppointment returned a result is in the list
\* getAppointments returns, at any later moment, also when it was stored through the
\* fallback because the datastore was unreachable
C35_SavedStaysFetched == \A id \in SavedIds : Fetched(id)

\* the fields an appointment takes part in the protocols with
Fields(a) ==
    <<a.status, a.counselorId, a.date, a.time, a.transferRequestToId,
      a.transferCounselorAccepted = "true", a.transferStudentAccepted = "true",
      a.rescheduleProposedDate, a.rescheduleProposedTime>>

\* the same calls were made on the datastore row and on the in-memory entry
BothPathsCalled == lastCall.id = LocalIdBase + 1

\* C36: after the same sequence of respondToTransfer, studentRespondToTransfer,
\* cancelTransfer and studentRespondToReschedule calls from the same starting state, the
\* datastore path and the in-memory fallback path of storageService end with the same
\* appointment fields and the same slot flags
C36_PathsAgree ==
    BothPathsCalled =>
        /\ Fields(appointments[1]) = Fields(localAppointments[2])
        /\ availability = localAvailability

\* the ledger the service in use reads and writes
Ledger(up, av, localAv) == IF up THEN av ELSE localAv

\* the slots of a published list keep their flags, and no booked slot is dropped
FlagsKept(av, avNew) ==
    \A c \in Counselors, d \in Dates, t \in Times :
        /\ IsPublished(av, c, d, t) /\ IsPublished(avNew, c, d, t)
              => (IsBooked(avNew, c, d, t) <=> IsBooked(av, c, d, t))
        /\ IsBooked(av, c, d, t) => IsPublished(avNew, c, d, t)

\* C37: saveAvailability never changes the booked flag of a slot that existed before the
\* call and is still in the published list, and never removes a slot that is booked
C37_PublishKeepsFlags ==
    [][lastCall'.op = "saveAvailability"
          => FlagsKept(Ledger(supabaseUp, availability, localAvailability),
                       Ledger(supabaseUp, availability', localAvailability'))]_vars

\* a gate request of c1 the counselor has not closed
OpenGateRequest(id) ==
    /\ id \in DOMAIN appointments
    /\ appointments[id].status = VERIFYING /\ appointments[id].counselorId = "c1"
    /\ id \notin ignoredIds

\* C38: every gate request assigned to the logged-in counselor that this counselor has not
\* dismissed is eventually shown in the gate modal (or stops being one), also while
\* another gate request the counselor dismissed earlier is still unresolved
C38_GateRequestShown ==
    \A id \in DbIds : OpenGateRequest(id) ~> (gateRequest = id \/ ~OpenGateRequest(id))

====
